---- MODULE Spec2Model ----
(***************************************************************************)
(* Pathy: a pathlib-style path over flat bucket storage.                   *)
(*                                                                         *)
(* The store is modelled for the two adapters of src/pathy: the local      *)
(* file-system adapter (BucketClientFS, real directories under a root) and *)
(* the Google Cloud Storage adapter (BucketClientGCS, a flat map of blob   *)
(* names per bucket).  Keys are strings, modelled as sequences of          *)
(* characters, so that prefix tests and str.replace are computed as the    *)
(* code computes them.                                                     *)
(***************************************************************************)
EXTENDS Naturals, Sequences, FiniteSets, TLC

(***************************************************************************)
(* Bounds of the model.                                                    *)
(***************************************************************************)
\* Most blobs a write may leave in the store.
MaxBlobs == 2
\* Most renames a behaviour begins.
MaxRenames == 1
\* Most client objects a behaviour constructs.
MaxClients == 2
\* Latest second the clock of the blob store reaches.
MaxTime == 2
\* Longest key, in characters, a rename may create ("a/ab/a" has 6).
MaxKeyLen == 6

\* Most segments of a path string that is parsed.
MaxSegs == 4

\* Writes of another writer while an operation runs.
MaxWrites == 1

(***************************************************************************)
(* Strings.                                                                *)
(***************************************************************************)
\* _PathyFlavour.sep, the separator of key segments.
Sep == "/"

Buckets == {"p", "q"}

Contents == {"x", "y"}

\* path.key is None: the path is a bucket root.
NoKey == <<>>

\* str(path.key): the text "None" when the path has no key.
KeyStr(k) == IF k = NoKey THEN <<"N", "o", "n", "e">> ELSE k

\* Two segment names, the first a character prefix of the second.
SegA == <<"a">>

SegAB == <<"a", "b">>

\* PurePathy's "/" operator on keys.
Join(k, n) == k \o <<Sep>> \o n

\* The keys the operations are called with: a, ab, a/a, a/ab, a/ab/a.
Keys ==
    {SegA, SegAB, Join(SegA, SegA), Join(SegA, SegAB),
     Join(Join(SegA, SegAB), SegA)}

\* Absolute paths: a bucket and an optional key.
Paths == [bucket : Buckets, key : Keys \cup {NoKey}]

KeyPaths == {p \in Paths : p.key # NoKey}

RootPaths == {p \in Paths : p.key = NoKey}

\* Relative paths: neither scheme nor bucket (the root is empty).
RelPaths == [bucket : {""}, key : {SegA, Join(SegA, SegA)}]

\* PurePath.is_absolute, for a flavour without drives: the root is not empty.
is_absolute(p) == p.bucket # ""

\* mkdir looks at the bucket and at whether there is a key, not at the key.
MkdirPaths == {p \in Paths : p.key \in {NoKey, SegA}}

\* str.startswith
StartsWith(s, p) == Len(p) <= Len(s) /\ SubSeq(s, 1, Len(p)) = p

\* str.replace(old, new): every non-overlapping occurrence, left to right.
RECURSIVE StrReplace(_, _, _)
StrReplace(s, old, new) ==
    IF Len(s) < Len(old) \/ Len(s) = 0 THEN s
    ELSE IF StartsWith(s, old)
         THEN new \o StrReplace(SubSeq(s, Len(old) + 1, Len(s)), old, new)
         ELSE <<Head(s)>> \o StrReplace(Tail(s), old, new)

\* Index of the last separator of s, 0 when there is none.
LastSep(s) ==
    LET idx == {i \in 1..Len(s) : s[i] = Sep}
    IN  IF idx = {} THEN 0 ELSE CHOOSE i \in idx : \A j \in idx : j <= i

\* pathlib's path.name and os.path.dirname, on a key.
Basename(k) == SubSeq(k, LastSep(k) + 1, Len(k))

Dirname(k) == IF LastSep(k) = 0 THEN NoKey ELSE SubSeq(k, 1, LastSep(k) - 1)

\* PurePathy.prefix: the key followed by the separator, "" without a key.
Prefix(k) == IF k = NoKey THEN <<>> ELSE k \o <<Sep>>

\* Key k lies below directory d (the bucket root when d is NoKey).
Under(k, d) == k # NoKey /\ k # d /\ StartsWith(k, Prefix(d))

\* Pathlib drops a trailing separator when a prefix is joined to a path.
StripSep(s) ==
    IF Len(s) > 0 /\ s[Len(s)] = Sep THEN SubSeq(s, 1, Len(s) - 1) ELSE s

\* Order of characters in a blob name, as the object store sorts them.
CharRank(c) == CASE c = "/" -> 0 [] c = "a" -> 1 [] c = "b" -> 2 [] OTHER -> 3

RECURSIVE StrLess(_, _)
StrLess(s, t) ==
    IF t = <<>> THEN FALSE
    ELSE IF s = <<>> THEN TRUE
    ELSE IF Head(s) = Head(t) THEN StrLess(Tail(s), Tail(t))
    ELSE CharRank(Head(s)) < CharRank(Head(t))

RECURSIVE SortedSeq(_)
SortedSeq(S) ==
    IF S = {} THEN <<>>
    ELSE LET m == CHOOSE x \in S : \A y \in S \ {x} : StrLess(x, y)
         IN  <<m>> \o SortedSeq(S \ {m})

RECURSIVE Perms(_)
Perms(S) ==
    IF S = {} THEN {<<>>}
    ELSE UNION {{<<x>> \o t : t \in Perms(S \ {x})} : x \in S}

Restrict(f, S) == [x \in S |-> f[x]]

(***************************************************************************)
(* State.                                                                  *)
(***************************************************************************)
VARIABLES
    adapter,    \* which BucketClient serves the paths: "fs" or "gcs"
    store,      \* [buckets, blobs, dirs]: what the backend holds
    rn,         \* position of a running BucketsAccessor.rename
    renames,    \* renames begun so far (bounds the model only)
    last,       \* [op, status] of the operation that returned last
    reg,        \* the client registry: the module globals of src/pathy
    got,        \* what the last call on the registry returned or raised
    lc,         \* the local cache of to_local, and the blob it caches
    pv,         \* a path string on its way through parse, format, parse
    ext,        \* what another writer did to the store during an operation
    rd,         \* position of a running BucketsAccessor.rmdir
    fc          \* the cache folder of to_local and the blobs' updated times

storeVars == <<adapter, store, rn, renames, last>>

registryVars == <<reg, got>>

cacheVars == <<lc>>

parseVars == <<pv>>

writerVars == <<ext, rd>>

folderVars == <<fc>>

vars == <<storeVars, registryVars, cacheVars, parseVars, writerVars, folderVars>>

NoBlobs == [x \in {} |-> "x"]

EmptyStore == [buckets |-> {}, blobs |-> NoBlobs, dirs |-> {}]

Idle == [phase |-> "idle"]

BlobKeys(s) == DOMAIN s.blobs

\* Names of the blobs of bucket b.
BlobNames(s, b) == {x[2] : x \in {y \in BlobKeys(s) : y[1] = b}}

(***************************************************************************)
(* Backend primitives.  A store s is [buckets, blobs, dirs]: the buckets   *)
(* that exist, the content of each blob <<bucket, name>>, and (local file  *)
(* system only) the real sub-directories <<bucket, key>> on disk.          *)
(***************************************************************************)
\* BucketClientFS.lookup_bucket / BucketClientGCS.lookup_bucket: is the
\* result a bucket (not None)?  The GCS client builds a handle without
\* asking the service.
lookup_bucket(s, p) == IF adapter = "fs" THEN p.bucket \in s.buckets ELSE TRUE

\* BucketClientFS.get_bucket / BucketClientGCS.get_bucket: "ok" or the error.
get_bucket(s, p) ==
    IF adapter = "fs" /\ p.bucket \notin s.buckets
    THEN "FileNotFoundError" ELSE "ok"

\* BucketFS.exists / BucketGCS.exists
bucket_exists(s, b) == b \in s.buckets

\* BucketFS.get_blob / BucketGCS.get_blob: is there a blob of that name?
\* On disk a directory of that name is not a blob.
bucket_get_blob(s, b, name) == <<b, name>> \in BlobKeys(s)

\* BucketsAccessor.get_blob
get_blob(s, p) ==
    IF ~lookup_bucket(s, p) THEN FALSE
    ELSE bucket_get_blob(s, p.bucket, KeyStr(p.key))

\* BucketClientFS.full_path(path).exists() and .is_dir()
fs_path_exists(s, p) ==
    IF p.key = NoKey THEN p.bucket \in s.buckets
    ELSE <<p.bucket, p.key>> \in BlobKeys(s) \cup s.dirs

fs_path_is_dir(s, p) ==
    IF p.key = NoKey THEN p.bucket \in s.buckets
    ELSE <<p.bucket, p.key>> \in s.dirs

\* BucketClientGCS.list_blobs: the names the service lists for a prefix
\* (None: all) and a delimiter (None: no grouping), in name order.  With a
\* delimiter, a name whose rest after the prefix holds the delimiter is
\* grouped into a "prefix" entry and not listed as a blob.
gcs_names(s, b, prefix, delimited) ==
    {n \in BlobNames(s, b) :
        /\ StartsWith(n, prefix)
        /\ delimited =>
             \A i \in (Len(prefix) + 1)..Len(n) : n[i] # Sep}

gcs_list_blobs(s, b, prefix, delimited) ==
    LET names == SortedSeq(gcs_names(s, b, prefix, delimited))
    IN  [i \in 1..Len(names) |-> [name |-> names[i], raw |-> names[i]]]

\* The service answers a listing of a bucket that does not exist with
\* NotFound; list_blobs does not catch it.
gcs_list_raises(s, b) == b \notin s.buckets

\* BucketClientFS.list_blobs: every file below bucket/prefix, at any depth
\* (rglob), each named prefix + file name (the directories between are
\* dropped from the name); raw is the file itself.
fs_files_below(s, b, d) == {k \in BlobNames(s, b) : Under(k, d)}

\* pathlib's rglob walks a directory before its sub-directories; the order
\* of the entries of one directory is the operating system's.
fs_walks(s, b, d) ==
    {w \in Perms(fs_files_below(s, b, d)) :
        \A i, j \in 1..Len(w) :
            Under(Dirname(w[j]), Dirname(w[i])) => i < j}

fs_list_blobs(s, b, prefix, w) ==
    [i \in 1..Len(w) |-> [name |-> prefix \o Basename(w[i]), raw |-> w[i]]]

\* The listings list_blobs(path, prefix, delimiter) can return.
list_blobs(s, b, prefix, delimited) ==
    IF adapter = "fs"
    THEN {fs_list_blobs(s, b, prefix, w) : w \in fs_walks(s, b, StripSep(prefix))}
    ELSE {gcs_list_blobs(s, b, prefix, delimited)}

\* BucketClient.is_dir (GCS): any(list_blobs(path, prefix=path.prefix));
\* BucketClientFS.is_dir: full_path(path).is_dir().
client_is_dir(s, p) ==
    IF adapter = "fs" THEN fs_path_is_dir(s, p)
    ELSE gcs_names(s, p.bucket, Prefix(p.key), FALSE) # {}

client_is_dir_raises(s, p) == adapter = "gcs" /\ gcs_list_raises(s, p.bucket)

\* BucketClientFS.exists: full_path(path).exists();
\* BucketClientGCS.exists: some listed name is the key or starts with
\* key + sep (a backend error counts as False).
client_exists(s, p) ==
    IF adapter = "fs" THEN fs_path_exists(s, p)
    ELSE /\ ~gcs_list_raises(s, p.bucket)
         /\ \E n \in BlobNames(s, p.bucket) :
                n = KeyStr(p.key) \/ StartsWith(n, KeyStr(p.key) \o <<Sep>>)

(***************************************************************************)
(* Pathy's queries.                                                        *)
(***************************************************************************)
\* BucketsAccessor.exists, as called by Pathy.exists on an absolute path.
exists(s, p) ==
    IF ~lookup_bucket(s, p) \/ ~bucket_exists(s, p.bucket) THEN FALSE
    ELSE IF p.key = NoKey THEN TRUE
    ELSE IF bucket_get_blob(s, p.bucket, KeyStr(p.key)) THEN TRUE
    ELSE client_exists(s, p)

\* BucketsAccessor.stat returns a BlobStat (TRUE) or raises FileNotFoundError.
accessor_stat(s, p) ==
    get_bucket(s, p) = "ok" /\ bucket_get_blob(s, p.bucket, KeyStr(p.key))

\* Pathy.is_file
is_file(s, p) == IF p.key = NoKey THEN FALSE ELSE accessor_stat(s, p)

\* BucketsAccessor.is_dir without its lookup of the exact-key blob.
accessor_is_dir_no_blob_check(s, p) ==
    ~client_is_dir_raises(s, p) /\ client_is_dir(s, p)

\* BucketsAccessor.is_dir: an exact-key blob is never a directory.
accessor_is_dir(s, p) ==
    IF get_blob(s, p) THEN FALSE
    ELSE ~client_is_dir_raises(s, p) /\ client_is_dir(s, p)

accessor_is_dir_raises(s, p) == ~get_blob(s, p) /\ client_is_dir_raises(s, p)

\* Pathy.is_dir returns True
is_dir(s, p) == IF p.key = NoKey THEN TRUE ELSE accessor_is_dir(s, p)

is_dir_raises(s, p) == p.key # NoKey /\ accessor_is_dir_raises(s, p)

(***************************************************************************)
(* Scanning.  A BucketEntry is [name, is_dir]; a scan is the sequence of   *)
(* entries the generator yields.                                           *)
(***************************************************************************)
DirEntry(n) == [name |-> n, is_dir |-> TRUE]

FileEntry(n) == [name |-> n, is_dir |-> FALSE]

\* The "prefixes" of a delimited listing: for every name that goes on past
\* the prefix to a separator, the name up to and including that separator.
gcs_prefixes(s, b, prefix) ==
    UNION {{SubSeq(n, 1, i) : i \in {j \in (Len(prefix) + 1)..Len(n) :
                                  /\ n[j] = Sep
                                  /\ \A k \in (Len(prefix) + 1)..(j - 1) : n[k] # Sep}}
           : n \in {m \in BlobNames(s, b) : StartsWith(m, prefix)}}

\* _GCSScanDir.scandir: a directory entry per prefix of the page, then a
\* file entry per blob of the page, each named by its last segment; an
\* empty name is skipped.
gcs_scandir(s, p) ==
    LET folders == SortedSeq(gcs_prefixes(s, p.bucket, Prefix(p.key)))
        items   == gcs_list_blobs(s, p.bucket, Prefix(p.key), TRUE)
        dirs    == [i \in 1..Len(folders) |->
                       DirEntry(Basename(StripSep(folders[i])))]
        files   == [i \in 1..Len(items) |-> FileEntry(Basename(items[i].name))]
        named(e) == e.name # <<>>
    IN  SelectSeq(dirs \o files, named)

\* ScanDirFS.scandir: scan_path.glob("*"), a directory entry for a
\* directory and a file entry for anything else; nothing when scan_path is
\* not a directory.  The order is the operating system's.
fs_scandir(s, p) ==
    IF ~fs_path_is_dir(s, p) THEN {<<>>}
    ELSE Perms({DirEntry(Basename(x[2])) :
                    x \in {y \in s.dirs : y[1] = p.bucket /\ Dirname(y[2]) = p.key}}
               \cup
               {FileEntry(Basename(k)) :
                    k \in {n \in BlobNames(s, p.bucket) : Dirname(n) = p.key}})

\* BucketsAccessor.scandir: the scans client.scandir(path, prefix) can yield.
scandir(s, p) == IF adapter = "fs" THEN fs_scandir(s, p) ELSE {gcs_scandir(s, p)}

\* The listing of a bucket the service does not have raises NotFound.
scandir_raises(s, p) == adapter = "gcs" /\ gcs_list_raises(s, p.bucket)

\* path / name
Child(p, name) ==
    [bucket |-> p.bucket,
     key    |-> IF p.key = NoKey THEN name ELSE Join(p.key, name)]

\* Pathy.iterdir (pathlib's over BucketsAccessor.listdir): the child path
\* of every scanned entry.
iterdir(p, entries) == [i \in 1..Len(entries) |-> Child(p, entries[i].name)]

\* The flavour's compile_pattern: fnmatch of a whole name against a pattern
\* of literal characters and "*" (any run of characters).
RECURSIVE fnmatch(_, _)
fnmatch(name, pat) ==
    IF pat = <<>> THEN name = <<>>
    ELSE IF Head(pat) = "*"
         THEN fnmatch(name, Tail(pat)) \/ (name # <<>> /\ fnmatch(Tail(name), pat))
         ELSE name # <<>> /\ Head(name) = Head(pat) /\ fnmatch(Tail(name), Tail(pat))

\* Single-segment wildcard patterns: "*", "a*", "*b".
Patterns == {<<"*">>, <<"a", "*">>, <<"*", "b">>}

\* The entries of a scan of p (every scan of a store has the same entries).
ScanSet(s, p) == UNION {{e[i] : i \in 1..Len(e)} : e \in scandir(s, p)}

\* pathlib's _WildcardSelector for the last pattern part: the child path of
\* every scanned entry whose name matches.
wildcard_select(s, p, pat) ==
    {Child(p, e.name) : e \in {x \in ScanSet(s, p) : fnmatch(x.name, pat)}}

\* pathlib's _RecursiveWildcardSelector._iterate_directories: the path and,
\* below every scanned entry that is a directory, the same again.
RECURSIVE iterate_directories(_, _)
iterate_directories(s, p) ==
    {p} \cup UNION {iterate_directories(s, Child(p, e.name)) :
                        e \in {x \in ScanSet(s, p) : x.is_dir}}

\* Pathy.glob(pattern) / Pathy.rglob(pattern), as the set of paths yielded:
\* pathlib selects from the path only when is_dir() says it is a directory.
glob(s, p, pat) == IF ~is_dir(s, p) THEN {} ELSE wildcard_select(s, p, pat)

rglob(s, p, pat) ==
    IF ~is_dir(s, p) THEN {}
    ELSE UNION {wildcard_select(s, d, pat) : d \in iterate_directories(s, p)}

\* is_dir or the scan raises the service's NotFound.
glob_raises(s, p) == is_dir_raises(s, p) \/ scandir_raises(s, p)

(***************************************************************************)
(* Backend mutators.  Each returns the store it leaves, and those that can *)
(* fail return [store, status].                                            *)
(***************************************************************************)
Put(bl, x, c) == [y \in DOMAIN bl \cup {x} |-> IF y = x THEN c ELSE bl[y]]

\* The directories a key lies in, nearest last.
Ancestors(k) == {SubSeq(k, 1, i - 1) : i \in {j \in 1..Len(k) : k[j] = Sep}}

\* shutil.rmtree of bucket/d (of the bucket itself when d is NoKey).
rmtree(s, b, d) ==
    LET gone(x) == x[1] = b /\ (d = NoKey \/ x[2] = d \/ Under(x[2], d))
    IN  [buckets |-> IF d = NoKey THEN s.buckets \ {b} ELSE s.buckets,
         blobs   |-> Restrict(s.blobs, {x \in BlobKeys(s) : ~gone(x)}),
         dirs    |-> {x \in s.dirs : ~gone(x)}]

\* Entries of the directory bucket/d on disk.
fs_listdir(s, b, d) ==
    {x \in BlobKeys(s) \cup s.dirs : x[1] = b /\ Dirname(x[2]) = d}

\* BlobFS.delete: unlink the file, then remove its folder when that left
\* the folder empty.
BlobFS_delete(s, b, raw) ==
    LET s1 == [s EXCEPT !.blobs = Restrict(@, DOMAIN @ \ {<<b, raw>>})]
        file_folder == Dirname(raw)
    IN  IF fs_listdir(s1, b, file_folder) = {}
        THEN rmtree(s1, b, file_folder)
        ELSE s1

\* bucket.delete_blob refusing the delete.
delete_blob_refused(s, b, blob) == [store |-> s, status |-> "PreconditionFailed"]

\* Blob.delete through Bucket.delete_blob, for either adapter.
delete_blob(s, b, blob) ==
    IF adapter = "fs"
    THEN IF <<b, blob.raw>> \in BlobKeys(s)
         THEN [store |-> BlobFS_delete(s, b, blob.raw), status |-> "ok"]
         ELSE [store |-> s, status |-> "FileNotFoundError"]
    ELSE IF <<b, blob.name>> \in BlobKeys(s)
         THEN [store  |-> [s EXCEPT !.blobs =
                              Restrict(@, DOMAIN @ \ {<<b, blob.name>>})],
               status |-> "ok"]
         ELSE [store |-> s, status |-> "NotFound"]

\* Bucket.delete_blobs: the blobs in turn, stopping at the first error.
RECURSIVE delete_blobs(_, _, _)
delete_blobs(s, b, blobs) ==
    IF blobs = <<>> THEN [store |-> s, status |-> "ok"]
    ELSE LET r == delete_blob(s, b, Head(blobs))
         IN  IF r.status # "ok" THEN r
             ELSE delete_blobs(r.store, b, Tail(blobs))

\* Path.mkdir(parents=True) of the directories a file bucket/k lies in.
fs_make_parents(s, b, k) ==
    [s EXCEPT !.buckets = @ \cup {b},
              !.dirs = @ \cup {<<b, d>> : d \in Ancestors(k)}]

\* BucketFS.copy_blob: the source file is bucket/blob.name, not blob.raw.
fs_copy_blob(s, sb, blob, tb, name) ==
    LET out_path == [bucket |-> tb, key |-> Dirname(name)]
        blocked  == \E d \in Ancestors(name) : <<tb, d>> \in BlobKeys(s)
        s1  == IF fs_path_exists(s, out_path) THEN s
               ELSE fs_make_parents(s, tb, name)
        \* shutil.copy: into the directory when the target is one
        dst == IF <<tb, name>> \in s1.dirs
               THEN name \o <<Sep>> \o Basename(blob.name) ELSE name
        in  == <<sb, blob.name>>
    IN  IF blocked THEN [store |-> s, status |-> "NotADirectoryError"]
        ELSE IF in \in BlobKeys(s1) /\ in = <<tb, dst>>
        THEN [store |-> s1, status |-> "SameFileError"]
        ELSE IF in \in s1.dirs
        THEN [store |-> s1, status |-> "IsADirectoryError"]
        ELSE IF in \notin BlobKeys(s1)
        THEN [store |-> s1, status |-> "FileNotFoundError"]
        ELSE IF <<tb, dst>> \in s1.dirs
        THEN [store |-> s1, status |-> "IsADirectoryError"]
        ELSE [store  |-> [s1 EXCEPT !.blobs = Put(@, <<tb, dst>>, s1.blobs[in])],
              status |-> "ok"]

\* BucketGCS.copy_blob: the service copies blob.raw to the target name.
gcs_copy_blob(s, sb, blob, tb, name) ==
    IF <<sb, blob.raw>> \notin BlobKeys(s) \/ tb \notin s.buckets
    THEN [store |-> s, status |-> "NotFound"]
    ELSE [store  |-> [s EXCEPT !.blobs = Put(@, <<tb, name>>, s.blobs[<<sb, blob.raw>>])],
          status |-> "ok"]

copy_blob(s, sb, blob, tb, name) ==
    IF adapter = "fs" THEN fs_copy_blob(s, sb, blob, tb, name)
    ELSE gcs_copy_blob(s, sb, blob, tb, name)

\* BucketClientFS.create_bucket / BucketClientGCS.create_bucket
create_bucket(s, p) ==
    IF p.bucket \in s.buckets
    THEN [store  |-> s,
          status |-> IF adapter = "fs" THEN "FileExistsError" ELSE "Conflict"]
    ELSE [store |-> [s EXCEPT !.buckets = @ \cup {p.bucket}], status |-> "ok"]

\* BucketClientFS.delete_bucket / BucketClientGCS.delete_bucket
delete_bucket(s, p) ==
    IF adapter = "fs"
    THEN [store  |-> IF p.bucket \in s.buckets THEN rmtree(s, p.bucket, NoKey)
                     ELSE s,
          status |-> "ok"]
    ELSE IF p.bucket \notin s.buckets THEN [store |-> s, status |-> "NotFound"]
    ELSE IF BlobNames(s, p.bucket) # {} THEN [store |-> s, status |-> "Conflict"]
    ELSE [store |-> [s EXCEPT !.buckets = @ \ {p.bucket}], status |-> "ok"]

\* BucketClientFS.open + write of the stream; the GCS upload to the bucket.
client_write(s, p, c) ==
    IF adapter = "fs"
    THEN IF ~lookup_bucket(s, p) THEN [store |-> s, status |-> "ClientError"]
         ELSE IF \E d \in Ancestors(p.key) : <<p.bucket, d>> \in BlobKeys(s)
         THEN [store |-> s, status |-> "NotADirectoryError"]
         ELSE IF <<p.bucket, p.key>> \in s.dirs
         THEN [store |-> s, status |-> "IsADirectoryError"]
         ELSE [store  |-> [fs_make_parents(s, p.bucket, p.key)
                             EXCEPT !.blobs = Put(@, <<p.bucket, p.key>>, c)],
               status |-> "ok"]
    ELSE IF p.bucket \notin s.buckets THEN [store |-> s, status |-> "NotFound"]
    ELSE [store  |-> [s EXCEPT !.blobs = Put(@, <<p.bucket, p.key>>, c)],
          status |-> "ok"]

(***************************************************************************)
(* Operations.                                                             *)
(***************************************************************************)
\* PurePathy._absolute_path_validation with its test left out.
absolute_path_validation_skipped(p) == "ok"

\* PurePathy._absolute_path_validation: "ok" or the error it raises.
absolute_path_validation(p) == IF is_absolute(p) THEN "ok" ELSE "ValueError"

Returned(op, r) ==
    /\ store' = r.store
    /\ last' = [op |-> op, status |-> r.status]

\* BucketsAccessor.mkdir: create the bucket when it is missing.
accessor_mkdir(s, p) ==
    IF ~lookup_bucket(s, p) \/ ~bucket_exists(s, p.bucket)
    THEN create_bucket(s, p)
    ELSE [store |-> s, status |-> "ok"]

\* pathlib's Path.mkdir, which Pathy.mkdir defers to: the accessor is
\* called first whatever parents is; a FileNotFoundError retries through
\* the parent when parents is set, another OSError is swallowed when
\* exist_ok is set and the path is a directory.
path_mkdir(s, p, parents, exist_ok) ==
    LET r == accessor_mkdir(s, p)
    IN  IF r.status = "FileExistsError" /\ exist_ok /\ is_dir(s, p)
        THEN [store |-> s, status |-> "ok"]
        ELSE r

\* Pathy.mkdir without its test of bucket.exists().
pathy_mkdir_no_exists_check(s, p, parents, exist_ok) ==
    LET r == path_mkdir(s, p, parents, exist_ok)
    IN  IF r.status # "ok" /\ exist_ok
        THEN [store |-> r.store, status |-> "ok"]
        ELSE r

\* Pathy.mkdir
pathy_mkdir(s, p, parents, exist_ok) ==
    IF p.key = NoKey /\ ~exist_ok
       /\ exists(s, [bucket |-> p.bucket, key |-> NoKey])
    THEN [store |-> s, status |-> "FileExistsError"]
    ELSE LET r == path_mkdir(s, p, parents, exist_ok)
         IN  IF r.status # "ok" /\ exist_ok
             THEN [store |-> r.store, status |-> "ok"]
             ELSE r

Mkdir(p, parents, exist_ok) ==
    /\ rn.phase = "idle"
    /\ Returned("mkdir", pathy_mkdir(store, p, parents, exist_ok))
    /\ UNCHANGED <<folderVars, registryVars, cacheVars, parseVars, writerVars, adapter, rn, renames>>

\* Pathy.write_text: open the blob for writing and write the text.
pathy_write(s, p, c) ==
    IF absolute_path_validation(p) # "ok"
    THEN [store |-> s, status |-> absolute_path_validation(p)]
    ELSE client_write(s, p, c)

Write(p, c) ==
    /\ rn.phase = "idle"
    /\ \/ <<p.bucket, p.key>> \in BlobKeys(store)
       \/ Cardinality(BlobKeys(store)) < MaxBlobs
    /\ Returned("write", pathy_write(store, p, c))
    /\ UNCHANGED <<folderVars, registryVars, cacheVars, parseVars, writerVars, adapter, rn, renames>>

\* BucketsAccessor.unlink
accessor_unlink(s, p) ==
    IF get_bucket(s, p) # "ok" THEN [store |-> s, status |-> get_bucket(s, p)]
    ELSE IF ~bucket_get_blob(s, p.bucket, KeyStr(p.key))
    THEN [store |-> s, status |-> "FileNotFoundError"]
    ELSE delete_blob(s, p.bucket, [name |-> p.key, raw |-> p.key])

Unlink(p) ==
    /\ rn.phase = "idle"
    /\ Returned("unlink", accessor_unlink(store, p))
    /\ UNCHANGED <<folderVars, registryVars, cacheVars, parseVars, writerVars, adapter, rn, renames>>

\* The text touch writes.
EmptyText == ""

\* Pathy.touch: exists(), then write_text("").
pathy_touch(s, p, exist_ok) ==
    IF absolute_path_validation(p) # "ok"
    THEN [store |-> s, status |-> absolute_path_validation(p)]
    ELSE IF exists(s, p) /\ ~exist_ok
    THEN [store |-> s, status |-> "FileExistsError"]
    ELSE pathy_write(s, p, EmptyText)

Touch(p, exist_ok) ==
    /\ rn.phase = "idle"
    /\ \/ <<p.bucket, p.key>> \in BlobKeys(store)
       \/ Cardinality(BlobKeys(store)) < MaxBlobs
    /\ Returned("touch", pathy_touch(store, p, exist_ok))
    /\ UNCHANGED <<folderVars, registryVars, cacheVars, parseVars, writerVars, adapter, rn, renames>>

\* The Pathy members that only read: bucket, key, exists, is_dir, is_file
\* and stat.  Each validates the path first; stat refuses a bucket root.
QueryOps == {"bucket", "key", "exists", "is_dir", "is_file", "stat"}

pathy_query(op, s, p) ==
    IF absolute_path_validation(p) # "ok" THEN absolute_path_validation(p)
    ELSE IF op = "is_dir" /\ is_dir_raises(s, p) THEN "NotFound"
    ELSE IF op = "stat" /\ p.key = NoKey THEN "ValueError"
    ELSE IF op = "stat" /\ get_bucket(s, p) # "ok" THEN get_bucket(s, p)
    ELSE IF op = "stat" /\ ~accessor_stat(s, p) THEN "FileNotFoundError"
    ELSE "ok"

Query(op, p) ==
    /\ rn.phase = "idle"
    /\ Returned(op, [store |-> store, status |-> pathy_query(op, store, p)])
    /\ UNCHANGED <<folderVars, registryVars, cacheVars, parseVars, writerVars, adapter, rn, renames>>

\* BucketClientFS.rmdir removes the directory tree; BucketClient.rmdir
\* (GCS) does nothing.
client_rmdir(s, p) == IF adapter = "fs" THEN rmtree(s, p.bucket, p.key) ELSE s

\* The deletes of BucketsAccessor.rmdir with those after a failed one
\* still made.
rmdir_deletes_goes_on(s, b, blobs, ok) ==
    IF ok < Len(blobs)
    THEN [store  |-> delete_blobs(s, b,
                         [i \in 1..(Len(blobs) - 1) |->
                             IF i <= ok THEN blobs[i] ELSE blobs[i + 1]]).store,
          status |-> "BackendError"]
    ELSE delete_blobs(s, b, blobs)

\* The deletes of BucketsAccessor.rmdir: the backend serves the first ok
\* of them and fails the next, if there is a next.
rmdir_deletes(s, b, blobs, ok) ==
    LET d == delete_blobs(s, b, SubSeq(blobs, 1, ok))
    IN  IF d.status = "ok" /\ ok < Len(blobs)
        THEN [store |-> d.store, status |-> "BackendError"]
        ELSE d

\* BucketsAccessor.rmdir from delete_blobs on: the deletes, then the bucket
\* or the directory.
rmdir_after_listing(s, p, blobs, ok) ==
    LET d == rmdir_deletes(s, p.bucket, blobs, ok)
    IN  IF d.status # "ok" THEN d
        ELSE IF p.key = NoKey THEN delete_bucket(d.store, p)
        ELSE IF client_is_dir(d.store, p)
        THEN [store |-> client_rmdir(d.store, p), status |-> "ok"]
        ELSE d

\* BucketsAccessor.rmdir, blobs being the listing of prefix=key_name.
accessor_rmdir(s, p, blobs, ok) ==
    IF get_bucket(s, p) # "ok" THEN [store |-> s, status |-> get_bucket(s, p)]
    ELSE IF adapter = "gcs" /\ gcs_list_raises(s, p.bucket)
    THEN [store |-> s, status |-> "NotFound"]
    ELSE rmdir_after_listing(s, p, blobs, ok)

\* Pathy.rmdir
pathy_rmdir(s, p, blobs, ok) ==
    IF absolute_path_validation(p) # "ok"
    THEN [store |-> s, status |-> absolute_path_validation(p)]
    ELSE IF is_file(s, p) THEN [store |-> s, status |-> "NotADirectoryError"]
    ELSE IF is_dir_raises(s, p) THEN [store |-> s, status |-> "NotFound"]
    ELSE IF ~is_dir(s, p) THEN [store |-> s, status |-> "FileNotFoundError"]
    ELSE accessor_rmdir(s, p, blobs, ok)

Rmdir(p) ==
    /\ rn.phase = "idle"
    /\ \E blobs \in list_blobs(store, p.bucket, p.key, FALSE) :
           \E ok \in 0..Len(blobs) :
               Returned("rmdir", pathy_rmdir(store, p, blobs, ok))
    /\ UNCHANGED <<folderVars, registryVars, cacheVars, parseVars, writerVars, adapter, rn, renames>>

(***************************************************************************)
(* BucketsAccessor.rename, one backend call per step.                      *)
(***************************************************************************)
\* The key a blob is copied to.
target_key_name(r, blob) ==
    IF r.single THEN KeyStr(r.dst.key)
    ELSE StrReplace(blob.name, KeyStr(r.src.key), KeyStr(r.dst.key))

RenameFails(status) ==
    /\ last' = [op |-> "rename", status |-> status]
    /\ UNCHANGED <<folderVars, registryVars, cacheVars, parseVars, writerVars, adapter, store, rn, renames>>

RenameBegins(src, dst, single, blobs) ==
    /\ \A i \in 1..Len(blobs) :
           Len(target_key_name([single |-> single, src |-> src, dst |-> dst],
                               blobs[i])) <= MaxKeyLen
    /\ rn' = [phase  |-> IF blobs = <<>> THEN "done" ELSE "copy",
              src    |-> src,
              dst    |-> dst,
              single |-> single,
              blobs  |-> blobs,
              i      |-> 1,
              status |-> "ok",
              pre    |-> store]
    /\ renames' = renames + 1
    /\ last' = [op |-> "rename", status |-> "running"]
    /\ ext' = {}
    /\ UNCHANGED <<folderVars, registryVars, cacheVars, parseVars, adapter, store, rd>>

\* Pathy.rename validates the path, then the target.
pathy_rename_validation(src, dst) ==
    IF absolute_path_validation(src) # "ok" THEN absolute_path_validation(src)
    ELSE absolute_path_validation(dst)

\* Pathy.rename validates both paths; then the calls of
\* BucketsAccessor.rename up to the listing: both buckets, is_dir, the source blob or
\* the blobs under the source prefix (listed with delimiter=sep).
RenameStart(src, dst) ==
    /\ rn.phase = "idle"
    /\ renames < MaxRenames
    /\ Cardinality(BlobKeys(store)) <= MaxBlobs
    /\ IF pathy_rename_validation(src, dst) # "ok"
       THEN RenameFails(pathy_rename_validation(src, dst))
       ELSE IF get_bucket(store, src) # "ok"
       THEN RenameFails(get_bucket(store, src))
       ELSE IF get_bucket(store, dst) # "ok"
       THEN RenameFails(get_bucket(store, dst))
       ELSE IF accessor_is_dir_raises(store, src)
       THEN RenameFails("NotFound")
       ELSE IF ~accessor_is_dir(store, src)
       THEN IF ~bucket_get_blob(store, src.bucket, KeyStr(src.key))
            THEN RenameFails("FileNotFoundError")
            ELSE RenameBegins(src, dst, TRUE,
                              <<[name |-> src.key, raw |-> src.key]>>)
       ELSE \E blobs \in list_blobs(store, src.bucket, Prefix(src.key), TRUE) :
                RenameBegins(src, dst, FALSE, blobs)

RenameAdvance(r, ok_phase) ==
    IF r.status # "ok"
    THEN rn' = [rn EXCEPT !.phase = "done", !.status = r.status]
    ELSE IF rn.i < Len(rn.blobs)
    THEN rn' = [rn EXCEPT !.i = @ + 1]
    ELSE rn' = [rn EXCEPT !.phase = ok_phase, !.i = 1]

\* target_bucket.copy_blob(blob, target_bucket, target_key_name)
RenameCopy ==
    /\ rn.phase = "copy"
    /\ LET blob == rn.blobs[rn.i]
           r == copy_blob(store, rn.src.bucket, blob, rn.dst.bucket,
                          target_key_name(rn, blob))
       IN  /\ store' = r.store
           /\ RenameAdvance(r, "delete")
    /\ UNCHANGED <<folderVars, registryVars, cacheVars, parseVars, writerVars, adapter, renames, last>>

\* bucket.delete_blob(blob)
RenameDelete ==
    /\ rn.phase = "delete"
    /\ LET r == delete_blob(store, rn.src.bucket, rn.blobs[rn.i])
       IN  /\ store' = r.store
           /\ RenameAdvance(r, "done")
    /\ UNCHANGED <<folderVars, registryVars, cacheVars, parseVars, writerVars, adapter, renames, last>>

\* The backend fails the copy or the delete that is next.
RenameBackendFails ==
    /\ rn.phase \in {"copy", "delete"}
    /\ RenameAdvance([status |-> "BackendError"], "done")
    /\ UNCHANGED <<folderVars, registryVars, cacheVars, parseVars, writerVars, adapter, store, renames, last>>

RenameReturn ==
    /\ rn.phase = "done"
    /\ rn' = Idle
    /\ last' = [op |-> "rename", status |-> rn.status]
    /\ UNCHANGED <<folderVars, registryVars, cacheVars, parseVars, writerVars, adapter, store, renames>>

(***************************************************************************)
(* The command line: cp, mv and rm of src/pathy/cli.py.  A command returns *)
(* [store, status]; status is "ok" or the exception that ends it, and the  *)
(* exit code is 0 for "ok" and 1 for the rest.                             *)
(***************************************************************************)
exit_code(status) == IF status = "ok" THEN "0" ELSE "1"

\* path.parent
Parent(p) == [bucket |-> p.bucket, key |-> Dirname(p.key)]

\* str(blob.relative_to(from_path)) for a blob key below the key of from_path.
relative_to(k, from_key) == SubSeq(k, Len(Prefix(from_key)) + 1, Len(k))

\* The paths from_path.rglob("*") yields, by key.
cli_rglob(s, p) == SortedSeq({x.key : x \in rglob(s, p, <<"*">>)})

\* for blob in from_path.rglob("*"): skip what is no file, write the rest
\* below to_path; copied is the to_unlink list of mv.
RECURSIVE cli_copy_each(_, _, _, _)
cli_copy_each(s, src, dst, keys) ==
    IF keys = <<>> THEN [store |-> s, status |-> "ok", copied |-> <<>>]
    ELSE LET k == Head(keys)
             blob == [bucket |-> src.bucket, key |-> k]
         IN  IF ~is_file(s, blob) THEN cli_copy_each(s, src, dst, Tail(keys))
             ELSE LET w == pathy_write(s, Child(dst, relative_to(k, src.key)),
                                       s.blobs[<<src.bucket, k>>])
                      r == cli_copy_each(w.store, src, dst, Tail(keys))
                  IN  IF w.status # "ok"
                      THEN [store |-> w.store, status |-> w.status, copied |-> <<>>]
                      ELSE [r EXCEPT !.copied = <<k>> \o @]

\* for blob in to_unlink: blob.unlink()
RECURSIVE cli_unlink_each(_, _, _)
cli_unlink_each(s, b, keys) ==
    IF keys = <<>> THEN [store |-> s, status |-> "ok"]
    ELSE LET u == accessor_unlink(s, [bucket |-> b, key |-> Head(keys)])
         IN  IF u.status # "ok" THEN u
             ELSE cli_unlink_each(u.store, b, Tail(keys))

\* path.rmdir() as the commands call it.
cli_rmdir(s, p) ==
    LET blobs == CHOOSE l \in list_blobs(s, p.bucket, p.key, FALSE) : TRUE
    IN  pathy_rmdir(s, p, blobs, Len(blobs))

\* to_path.parent.mkdir(parents=True, exist_ok=True); to_path.write_bytes(...)
cli_copy_file(s, src, dst) ==
    LET m == pathy_mkdir(s, Parent(dst), TRUE, TRUE)
    IN  IF m.status # "ok" THEN m
        ELSE pathy_write(m.store, dst, s.blobs[<<src.bucket, src.key>>])

\* to_path.mkdir(parents=True, exist_ok=True), then the loop over rglob.
cli_copy_folder(s, src, dst) ==
    LET m == pathy_mkdir(s, dst, TRUE, TRUE)
    IN  IF m.status # "ok" THEN [store |-> m.store, status |-> m.status, copied |-> <<>>]
        ELSE IF glob_raises(m.store, src)
        THEN [store |-> m.store, status |-> "NotFound", copied |-> <<>>]
        ELSE cli_copy_each(m.store, src, dst, cli_rglob(m.store, src))

\* cp from_location to_location
cli_cp(s, src, dst) ==
    IF ~exists(s, src) THEN [store |-> s, status |-> "ValueError"]
    ELSE IF is_dir_raises(s, src) THEN [store |-> s, status |-> "NotFound"]
    ELSE IF is_dir(s, src)
    THEN LET c == cli_copy_folder(s, src, dst)
         IN  [store |-> c.store, status |-> c.status]
    ELSE IF is_file(s, src) THEN cli_copy_file(s, src, dst)
    ELSE [store |-> s, status |-> "ok"]

\* mv from_location to_location
cli_mv(s, src, dst) ==
    IF is_file(s, src)
    THEN LET c == cli_copy_file(s, src, dst)
         IN  IF c.status # "ok" THEN c ELSE accessor_unlink(c.store, src)
    ELSE IF is_dir_raises(s, src) THEN [store |-> s, status |-> "NotFound"]
    ELSE IF is_dir(s, src)
    THEN LET c == cli_copy_folder(s, src, dst)
             u == cli_unlink_each(c.store, src.bucket, c.copied)
         IN  IF c.status # "ok" THEN [store |-> c.store, status |-> c.status]
             ELSE IF u.status # "ok" THEN u
             ELSE IF is_dir_raises(u.store, src)
             THEN [store |-> u.store, status |-> "NotFound"]
             ELSE IF is_dir(u.store, src) THEN cli_rmdir(u.store, src)
             ELSE u
    ELSE [store |-> s, status |-> "ok"]

\* rm [-r] location
cli_rm(s, p, recursive) ==
    IF ~exists(s, p) THEN [store |-> s, status |-> "Exit"]
    ELSE IF is_dir_raises(s, p) THEN [store |-> s, status |-> "NotFound"]
    ELSE IF is_dir(s, p)
    THEN IF ~recursive THEN [store |-> s, status |-> "Exit"]
         ELSE IF glob_raises(s, p) THEN [store |-> s, status |-> "NotFound"]
         ELSE LET files == SelectSeq(cli_rglob(s, p),
                               LAMBDA k : is_file(s, [bucket |-> p.bucket, key |-> k]))
                  u == cli_unlink_each(s, p.bucket, files)
              IN  IF u.status # "ok" THEN u
                  ELSE IF exists(u.store, p) THEN cli_rmdir(u.store, p)
                  ELSE u
    ELSE IF is_file(s, p) THEN accessor_unlink(s, p)
    ELSE [store |-> s, status |-> "ok"]

\* A command ran and the process exited.
Exited(op, r) ==
    /\ \A x \in BlobKeys(r.store) : Len(x[2]) <= MaxKeyLen
    /\ Cardinality(BlobKeys(r.store)) <= MaxBlobs + 1
    /\ Returned(op, [store |-> r.store, status |-> exit_code(r.status)])

Cp(src, dst) ==
    /\ rn.phase = "idle"
    /\ Exited("cp", cli_cp(store, src, dst))
    /\ UNCHANGED <<folderVars, registryVars, cacheVars, parseVars, writerVars, adapter, rn, renames>>

Mv(src, dst) ==
    /\ rn.phase = "idle"
    /\ Exited("mv", cli_mv(store, src, dst))
    /\ UNCHANGED <<folderVars, registryVars, cacheVars, parseVars, writerVars, adapter, rn, renames>>

Rm(p, recursive) ==
    /\ rn.phase = "idle"
    /\ Exited("rm", cli_rm(store, p, recursive))
    /\ UNCHANGED <<folderVars, registryVars, cacheVars, parseVars, writerVars, adapter, rn, renames>>

(***************************************************************************)
(* Operations in steps, and another writer on the same store.  rename and  *)
(* rmdir list the blobs once and then make one backend call per blob; no   *)
(* call of theirs takes a lock, so a writer outside can act between two    *)
(* of them.                                                                *)
(***************************************************************************)
\* Pathy.rmdir up to the listing of BucketsAccessor.rmdir, for a path that
\* passes the checks before it.
RmdirList(p) ==
    /\ rn.phase = "idle"
    /\ rd.phase # "listed"
    /\ pathy_rmdir(store, p, <<>>, 0).status = "ok"
    /\ \E blobs \in list_blobs(store, p.bucket, p.key, FALSE) :
           rd' = [phase |-> "listed", path |-> p, blobs |-> blobs]
    /\ ext' = {}
    /\ UNCHANGED <<folderVars, storeVars, registryVars, cacheVars, parseVars>>

\* BucketsAccessor.rmdir from delete_blobs to its return.
RmdirFinish ==
    /\ rd.phase = "listed"
    /\ Returned("rmdir",
                rmdir_after_listing(store, rd.path, rd.blobs, Len(rd.blobs)))
    /\ rd' = [rd EXCEPT !.phase = "done"]
    /\ UNCHANGED <<folderVars, registryVars, cacheVars, parseVars, adapter, rn, renames, ext>>

\* What a delete by the other writer is recorded with.
Deleted == "deleted"

Running == rn.phase \in {"copy", "delete"} \/ rd.phase = "listed"

\* Another process writes a blob while the operation runs.
ExternalWrite(p, c) ==
    /\ Running
    /\ Cardinality(ext) < MaxWrites
    /\ \/ <<p.bucket, p.key>> \in BlobKeys(store)
       \/ Cardinality(BlobKeys(store)) < MaxBlobs + 1
    /\ client_write(store, p, c).status = "ok"
    /\ store' = client_write(store, p, c).store
    /\ ext' = ext \cup {[bucket |-> p.bucket, key |-> p.key, content |-> c]}
    /\ UNCHANGED <<folderVars, registryVars, cacheVars, parseVars, adapter, rn, renames, last, rd>>

\* Another process deletes a blob while the operation runs.
ExternalDelete(p) ==
    /\ Running
    /\ Cardinality(ext) < MaxWrites
    /\ LET r == delete_blob(store, p.bucket, [name |-> p.key, raw |-> p.key])
       IN  /\ r.status = "ok"
           /\ store' = r.store
    /\ ext' = ext \cup {[bucket |-> p.bucket, key |-> p.key, content |-> Deleted]}
    /\ UNCHANGED <<folderVars, registryVars, cacheVars, parseVars, adapter, rn, renames, last, rd>>

(***************************************************************************)
(* Path strings.  A string is a sequence of characters; PurePathy(text)    *)
(* parses it to (drv, root, parts) and str() formats that back.            *)
(***************************************************************************)
Dot == <<".">>

DotDot == <<".", ".">>

\* The segments a path string is written with, the empty one included
\* (two separators in a row).
SegNames == {SegA, <<"b">>, Dot, DotDot, <<>>}

\* What a path string begins with: nothing (relative), a scheme and "//",
\* or the separator of the legacy form.
Heads == {<<>>, <<"g", ":", "/", "/">>, <<"/">>}

\* _PathyFlavour.join: sep.join(parts)
RECURSIVE flavour_join(_)
flavour_join(parts) ==
    IF parts = <<>> THEN <<>>
    ELSE IF Len(parts) = 1 THEN parts[1]
    ELSE parts[1] \o <<Sep>> \o flavour_join(Tail(parts))

SegLists == UNION {[1..n -> SegNames] : n \in 0..MaxSegs}

PathStrings == {h \o flavour_join(l) : h \in Heads, l \in SegLists}

\* str.split(sep)
RECURSIVE split(_)
split(s) ==
    LET idx == {i \in 1..Len(s) : s[i] = Sep}
    IN  IF idx = {} THEN <<s>>
        ELSE LET i == CHOOSE x \in idx : \A y \in idx : x <= y
             IN  <<SubSeq(s, 1, i - 1)>> \o split(SubSeq(s, i + 1, Len(s)))

\* str.lstrip(sep)
RECURSIVE lstrip(_)
lstrip(s) == IF s # <<>> /\ Head(s) = Sep THEN lstrip(Tail(s)) ELSE s

\* _PosixFlavour.splitroot: exactly two leading separators are a root of
\* their own, any other number is the root "/".
posix_splitroot(part) ==
    IF part # <<>> /\ Head(part) = Sep
    THEN [root |-> IF Len(part) - Len(lstrip(part)) = 2 THEN <<Sep, Sep>> ELSE <<Sep>>,
          rel  |-> lstrip(part)]
    ELSE [root |-> <<>>, rel |-> part]

\* _PosixFlavour.parse_parts of one string: the root, then the segments
\* that are neither empty nor ".".
posix_parse_parts(text) ==
    LET sr      == posix_splitroot(text)
        kept(x) == x # <<>> /\ x # Dot
        segs    == SelectSeq(split(sr.rel), kept)
    IN  [root   |-> sr.root,
         parsed |-> IF sr.root # <<>> THEN <<sr.root>> \o segs ELSE segs]

\* list.index(".."), counted from 1; 0 when there is none.
FirstDotDot(parsed) ==
    LET idx == {i \in 1..Len(parsed) : parsed[i] = DotDot}
    IN  IF idx = {} THEN 0 ELSE CHOOSE x \in idx : \A y \in idx : x <= y

RemoveAt(seq, i) == SubSeq(seq, 1, i - 1) \o SubSeq(seq, i + 1, Len(seq))

\* The loop of parse_parts, n passes to go: index = parsed.index(".."),
\* parsed.pop(index - 1), parsed.remove("..").  pop(-1), when the ".." is
\* the first element, takes the last element; index and remove raise
\* ValueError when no ".." is left.
RECURSIVE dotdot_loop(_, _)
dotdot_loop(parsed, n) ==
    IF n = 0 THEN [status |-> "ok", parts |-> parsed]
    ELSE LET index == FirstDotDot(parsed)
         IN  IF index = 0 THEN [status |-> "ValueError", parts |-> <<>>]
             ELSE LET popped == RemoveAt(parsed,
                                         IF index = 1 THEN Len(parsed) ELSE index - 1)
                  IN  IF FirstDotDot(popped) = 0
                      THEN [status |-> "ValueError", parts |-> <<>>]
                      ELSE dotdot_loop(RemoveAt(popped, FirstDotDot(popped)), n - 1)

\* The segments with every ".." resolved from left to right against the
\* segment just before it; a ".." with nothing before it stays.
RECURSIVE dotdot_stack(_, _)
dotdot_stack(done, rest) ==
    IF rest = <<>> THEN done
    ELSE IF Head(rest) = DotDot /\ done # <<>>
         THEN dotdot_stack(SubSeq(done, 1, Len(done) - 1), Tail(rest))
         ELSE dotdot_stack(Append(done, Head(rest)), Tail(rest))

\* _PathyFlavour.parse_parts: a first part that ends with ":" is the scheme
\* and the part after it the bucket; then one pass of the loop for every
\* ".." of parsed[1:].
parse_parts(text) ==
    LET pp     == posix_parse_parts(text)
        scheme == pp.parsed # <<>> /\ pp.parsed[1][Len(pp.parsed[1])] = ":"
        passes == Cardinality({i \in 2..Len(pp.parsed) : pp.parsed[i] = DotDot})
        r      == dotdot_loop(pp.parsed, passes)
    IN  IF scheme /\ Len(pp.parsed) < 2
        THEN [status |-> "ValueError", drv |-> <<>>, root |-> <<>>, parts |-> <<>>]
        ELSE [status |-> r.status,
              drv    |-> IF scheme THEN pp.parsed[1] ELSE <<>>,
              root   |-> IF scheme THEN pp.parsed[2] ELSE pp.root,
              parts  |-> r.parts]

\* PurePathy._format_parsed_parts, and the "." that str() gives an empty
\* result.
format_parsed_parts(drv, root, parts) ==
    LET res == IF drv # <<>> /\ root # <<>>
               THEN drv \o <<Sep, Sep>> \o root \o <<Sep>>
                        \o flavour_join(SubSeq(parts, 3, Len(parts)))
               ELSE IF drv # <<>> \/ root # <<>>
               THEN drv \o root \o flavour_join(SubSeq(parts, 2, Len(parts)))
               ELSE flavour_join(parts)
    IN  IF res = <<>> THEN Dot ELSE res

NoResult == [status |-> "none", drv |-> <<>>, root |-> <<>>, parts |-> <<>>]

NoParse == [phase |-> "none", text |-> <<>>, r |-> NoResult, out |-> <<>>,
            r2 |-> NoResult]

\* PurePathy(text)
Parse ==
    /\ pv.phase = "new"
    /\ pv' = [pv EXCEPT !.phase = "parsed", !.r = parse_parts(pv.text)]
    /\ UNCHANGED <<folderVars, storeVars, registryVars, cacheVars, writerVars>>

\* str(path)
Format ==
    /\ pv.phase = "parsed"
    /\ pv.r.status = "ok"
    /\ pv' = [pv EXCEPT !.phase = "formatted",
                        !.out = format_parsed_parts(pv.r.drv, pv.r.root, pv.r.parts)]
    /\ UNCHANGED <<folderVars, storeVars, registryVars, cacheVars, writerVars>>

\* PurePathy(str(path))
Reparse ==
    /\ pv.phase = "formatted"
    /\ pv' = [pv EXCEPT !.phase = "reparsed", !.r2 = parse_parts(pv.out)]
    /\ UNCHANGED <<folderVars, storeVars, registryVars, cacheVars, writerVars>>

(***************************************************************************)
(* Client registration.                                                    *)
(***************************************************************************)
Schemes == {"file", "gs", "foo"}

ClientTypes == {"BucketClientFS", "BucketClientGCS", "BucketClientTest"}

\* Keyword arguments given for a scheme; "{}" is no argument at all.
Kwargs == {"A", "B"}

\* The registrations made: pathy's Google client, and a client of the tests
\* whose constructor requires an argument.
Registrations == {<<"gs", "BucketClientGCS">>, <<"foo", "BucketClientTest">>}

\* _optional_clients: the schemes whose client module is loaded on demand.
optional_clients == {"gs"}

\* The module globals as the import of pathy leaves them: _client_registry
\* (without the "" alias of "file"), _client_args_registry, _instance_cache,
\* _fs_client (0 is None), and the client objects constructed so far: a
\* client is the index of its [type, params] in objs.
RegInit ==
    [registry |-> [s \in Schemes |->
                      IF s = "file" THEN "BucketClientFS" ELSE "none"],
     args     |-> [s \in Schemes |-> "unset"],
     cache    |-> [s \in Schemes |-> 0],
     fs       |-> 0,
     objs     |-> <<>>]

NoCall == [op |-> "none", scheme |-> "", status |-> "ok", client |-> 0]

\* cls(**kwargs): the statuses a constructor (or recreate) can end with.
\* BucketClientTest requires an argument; whether the Google client finds
\* credentials depends on the host.
construct(type, kwargs) ==
    IF type = "BucketClientTest"
    THEN IF kwargs = "{}" THEN {"TypeError"} ELSE {"ok"}
    ELSE IF type = "BucketClientGCS" THEN {"ok", "DefaultCredentialsError"}
    ELSE {"ok"}

\* importlib.import_module(_optional_clients[scheme]): the module loaded
\* registers its client, or defines none, or is not installed.
import_module(r, scheme) ==
    {[reg |-> [r EXCEPT !.registry[scheme] = "BucketClientGCS"], status |-> "ok"],
     [reg |-> r, status |-> "ok"],
     [reg |-> r, status |-> "ModuleNotFoundError"]}

\* register_client
register_client(r, scheme, type) == [r EXCEPT !.registry[scheme] = type]

\* get_client past the override and the cache: create the client from the
\* registry, or raise ValueError.
create_client(r, scheme) ==
    IF r.registry[scheme] = "none"
    THEN {[reg |-> r, status |-> "ValueError", client |-> 0]}
    ELSE LET kwargs == IF r.args[scheme] = "unset" THEN "{}" ELSE r.args[scheme]
             id == Len(r.objs) + 1
             obj == [type |-> r.registry[scheme], params |-> kwargs]
         IN  {IF st = "ok"
              THEN [reg    |-> [r EXCEPT !.objs = Append(@, obj),
                                         !.cache[scheme] = id],
                    status |-> "ok",
                    client |-> id]
              ELSE [reg |-> r, status |-> st, client |-> 0]
              : st \in construct(r.registry[scheme], kwargs)}

\* get_client with the instance cache consulted before the override.
get_client_cache_first(r, scheme) ==
    IF r.cache[scheme] # 0
    THEN {[reg |-> r, status |-> "ok", client |-> r.cache[scheme]]}
    ELSE IF r.fs # 0
    THEN {[reg |-> r, status |-> "ok", client |-> r.fs]}
    ELSE create_client(r, scheme)

\* get_client: the set of ways the call can end.
get_client(r, scheme) ==
    IF r.fs # 0
    THEN {[reg |-> r, status |-> "ok", client |-> r.fs]}
    ELSE IF r.cache[scheme] # 0
    THEN {[reg |-> r, status |-> "ok", client |-> r.cache[scheme]]}
    ELSE IF r.registry[scheme] = "none" /\ scheme \in optional_clients
    THEN UNION {IF m.status = "ok" THEN create_client(m.reg, scheme)
                ELSE {[reg |-> m.reg, status |-> m.status, client |-> 0]}
                : m \in import_module(r, scheme)}
    ELSE create_client(r, scheme)

\* BucketClient.recreate on the client c: the base class (and so the
\* file-system client) does nothing, the others take the new arguments.
recreate(r, c, kwargs) ==
    LET type == r.objs[c].type
    IN  IF type = "BucketClientFS" THEN {[reg |-> r, status |-> "ok"]}
        ELSE {IF st = "ok"
              THEN [reg |-> [r EXCEPT !.objs[c].params = kwargs], status |-> "ok"]
              ELSE [reg |-> r, status |-> st]
              : st \in construct(type, kwargs)}

\* set_client_params
set_client_params(r, scheme, kwargs) ==
    LET r1 == [r EXCEPT !.args[scheme] = kwargs]
    IN  IF r1.cache[scheme] # 0 THEN recreate(r1, r1.cache[scheme], kwargs)
        ELSE {[reg |-> r1, status |-> "ok"]}

\* use_fs: False drops the override, anything else sets a new file-system
\* client rooted at root (the root directory is made on the host).
use_fs(r, root) ==
    IF root = "False" THEN [reg |-> [r EXCEPT !.fs = 0], client |-> 0]
    ELSE [reg    |-> [r EXCEPT !.objs = Append(@, [type   |-> "BucketClientFS",
                                                    params |-> root]),
                               !.fs = Len(r.objs) + 1],
          client |-> Len(r.objs) + 1]

Called(op, scheme, x) ==
    /\ Len(x.reg.objs) <= MaxClients
    /\ reg' = x.reg
    /\ got' = [op |-> op, scheme |-> scheme, status |-> x.status,
               client |-> x.client]
    /\ UNCHANGED <<folderVars, storeVars, cacheVars, parseVars, writerVars>>

RegisterClient(scheme, type) ==
    Called("register_client", scheme,
           [reg |-> register_client(reg, scheme, type), status |-> "ok",
            client |-> 0])

GetClient(scheme) ==
    \E x \in get_client(reg, scheme) : Called("get_client", scheme, x)

SetClientParams(scheme, kwargs) ==
    \E x \in set_client_params(reg, scheme, kwargs) :
        Called("set_client_params", scheme,
               [reg |-> x.reg, status |-> x.status, client |-> 0])

UseFs(root) ==
    LET x == use_fs(reg, root)
    IN  Called("use_fs", "", [reg |-> x.reg, status |-> "ok", client |-> x.client])

(***************************************************************************)
(* The local cache of to_local.  One blob, gs://p/a, is cached; a host     *)
(* directory is the sequence of its segments, <<>> being "/".              *)
(***************************************************************************)
RootDir == <<>>

\* The directories use_fs_cache is called with: /, /c and /c/.. .
CacheRoots == {RootDir, <<"c">>, <<"c", "..">>}

\* pathlib's Path.resolve on an absolute path: a ".." drops the segment
\* before it, and "/.." is "/".
RECURSIVE resolve_from(_, _)
resolve_from(done, rest) ==
    IF rest = <<>> THEN done
    ELSE IF Head(rest) = ".."
    THEN resolve_from(IF done = <<>> THEN done
                      ELSE SubSeq(done, 1, Len(done) - 1), Tail(rest))
    ELSE resolve_from(Append(done, Head(rest)), Tail(rest))

resolve(path) == resolve_from(<<>>, path)

CacheDirs == {resolve(r) : r \in CacheRoots}

Digits == <<"0", "1", "2", "3", "4", "5", "6", "7", "8", "9">>

\* str(n) of a non-negative int: its decimal digits.
RECURSIVE Str(_)
Str(n) == IF n < 10 THEN <<Digits[n + 1]>> ELSE Str(n \div 10) \o <<Digits[(n % 10) + 1]>>

\* No file at a path of the cache: no data, no text.
NoData == "none"

NoText == <<>>

\* _fs_cache is None (set is false); no cache file anywhere; /c not made; the files of the
\* host that are no cache files intact; the blob not written; second 0.
CacheInit ==
    [set    |-> FALSE,
     root   |-> RootDir,
     made   |-> {RootDir},
     data   |-> [d \in CacheDirs |-> NoData],
     time   |-> [d \in CacheDirs |-> NoText],
     host   |-> TRUE,
     remote |-> [content |-> NoData, updated |-> 0],
     now    |-> 0,
     ret    |-> [op |-> "none", status |-> "ok", fetched |-> FALSE]]

CacheReturned(L, op, status, fetched) ==
    lc' = [L EXCEPT !.ret = [op |-> op, status |-> status, fetched |-> fetched]]

\* Path.exists of a cache root.
root_exists(L, root) ==
    /\ \A i \in 1..Len(root) :
           root[i] = ".." => resolve(SubSeq(root, 1, i - 1)) \in L.made
    /\ resolve(root) \in L.made

\* use_fs_cache(False)
unset_fs_cache(L) == [L EXCEPT !.set = FALSE]

\* use_fs_cache with a directory.
use_fs_cache(L, root) ==
    IF root_exists(L, root)
    THEN [lc |-> [L EXCEPT !.set = TRUE, !.root = root], status |-> "ok"]
    ELSE IF \E i \in 1..Len(root) : root[i] = ".."
    \* mkdir(parents=True) makes /c for /c/.. and then finds /c/.. made
    THEN [lc     |-> [L EXCEPT !.made = @ \cup {<<"c">>}],
          status |-> "FileExistsError"]
    ELSE [lc     |-> [L EXCEPT !.made = @ \cup {root}, !.set = TRUE,
                               !.root = root],
          status |-> "ok"]

\* The blob's last_modified, as BucketsAccessor.stat reports it.
last_modified(L) == L.remote.updated

\* to_local, from "If the file isn't in the cache, download it" on.
download(L, d) ==
    IF L.data[d] = NoData /\ L.remote.content # NoData
    THEN [lc      |-> [L EXCEPT !.data[d] = L.remote.content,
                                !.time[d] = Str(last_modified(L))],
          status  |-> "ok",
          fetched |-> TRUE]
    ELSE [lc |-> L, status |-> "ok", fetched |-> FALSE]

\* Pathy.to_local of the blob.
to_local(L) ==
    IF ~L.set
    THEN [lc |-> L, status |-> "ValueError", fetched |-> FALSE]
    ELSE LET d  == resolve(L.root)
             L1 == [L EXCEPT !.made = @ \cup {d}]
         IN  IF L1.data[d] # NoData /\ L1.time[d] # NoText
             THEN IF L1.remote.content = NoData
                  THEN [lc |-> L1, status |-> "FileNotFoundError",
                        fetched |-> FALSE]
                  ELSE IF L1.time[d] = Str(last_modified(L1))
                  THEN [lc |-> L1, status |-> "ok", fetched |-> FALSE]
                  ELSE download([L1 EXCEPT !.data[d] = NoData,
                                           !.time[d] = NoText], d)
             ELSE download(L1, d)

\* clear_fs_cache testing the root as it was given, not resolved.
clear_fs_cache_unresolved(L, force) ==
    IF ~L.set \/ L.root = RootDir
    THEN [lc |-> L, status |-> "AssertionError"]
    ELSE LET d == resolve(L.root)
         IN  IF d \notin L.made THEN [lc |-> L, status |-> "FileNotFoundError"]
             ELSE [lc |-> [L EXCEPT !.made = (@ \ {d}) \cup {RootDir},
                                    !.data[d] = NoData,
                                    !.time[d] = NoText,
                                    !.host = (d # RootDir)],
                   status |-> "ok"]

\* clear_fs_cache: shutil.rmtree of the resolved root, which takes the
\* host's other files with it when the root is "/".
clear_fs_cache(L, force) ==
    IF ~L.set \/ resolve(L.root) = RootDir
    THEN [lc |-> L, status |-> "AssertionError"]
    ELSE LET d == resolve(L.root)
         IN  IF d \notin L.made THEN [lc |-> L, status |-> "FileNotFoundError"]
             ELSE [lc |-> [L EXCEPT !.made = (@ \ {d}) \cup {RootDir},
                                    !.data[d] = NoData,
                                    !.time[d] = NoText,
                                    !.host = (d # RootDir)],
                   status |-> "ok"]

UseFsCache(root) ==
    LET r == use_fs_cache(lc, root)
    IN  /\ CacheReturned(r.lc, "use_fs_cache", r.status, FALSE)
        /\ UNCHANGED <<folderVars, storeVars, registryVars, parseVars, writerVars>>

UnsetFsCache ==
    /\ CacheReturned(unset_fs_cache(lc), "use_fs_cache", "ok", FALSE)
    /\ UNCHANGED <<folderVars, storeVars, registryVars, parseVars, writerVars>>

ToLocal ==
    LET r == to_local(lc)
    IN  /\ CacheReturned(r.lc, "to_local", r.status, r.fetched)
        /\ UNCHANGED <<folderVars, storeVars, registryVars, parseVars, writerVars>>

ClearFsCache(force) ==
    LET r == clear_fs_cache(lc, force)
    IN  /\ CacheReturned(r.lc, "clear_fs_cache", r.status, FALSE)
        /\ UNCHANGED <<folderVars, storeVars, registryVars, parseVars, writerVars>>

\* The blob is written (write_text) in the current second.
BlobWritten(c) ==
    /\ CacheReturned([lc EXCEPT !.remote = [content |-> c, updated |-> lc.now]],
                     "write", "ok", FALSE)
    /\ UNCHANGED <<folderVars, storeVars, registryVars, parseVars, writerVars>>

\* A second passes.
Tick ==
    /\ lc.now < MaxTime
    /\ CacheReturned([lc EXCEPT !.now = @ + 1], "tick", "ok", FALSE)
    /\ UNCHANGED <<folderVars, storeVars, registryVars, parseVars, writerVars>>

\* Corruption of the cache: the data file or the sidecar of the configured
\* root is lost from the host.
CacheFileLost(sidecar) ==
    /\ lc.set
    /\ LET d == resolve(lc.root)
       IN  /\ IF sidecar THEN lc.time[d] # NoText ELSE lc.data[d] # NoData
           /\ CacheReturned(IF sidecar THEN [lc EXCEPT !.time[d] = NoText]
                            ELSE [lc EXCEPT !.data[d] = NoData],
                            "lost", "ok", FALSE)
    /\ UNCHANGED <<folderVars, storeVars, registryVars, parseVars, writerVars>>

(***************************************************************************)
(* to_local of a prefix.  The cache folder holds, by blob key, the data    *)
(* files, the ".time" sidecars and the directories made for them; the      *)
(* blobs are those of the store, each with the time of its last write.     *)
(***************************************************************************)
NoFiles == [k \in {} |-> "x"]

NoTimes == [k \in {} |-> <<>>]

FolderInit ==
    [set     |-> FALSE,
     files   |-> NoFiles,
     times   |-> NoTimes,
     dirs    |-> {},
     updated |-> [k \in {} |-> 0],
     now     |-> 0]

\* The prefix to_local is called with, gs://p/a, and the keys of the blobs
\* written right below it.
Folder == [bucket |-> "p", key |-> SegA]

FolderKeys == {k \in Keys : Dirname(k) = Folder.key}

\* cache_blob.exists()
cache_blob_exists(F, p) == p.key \in DOMAIN F.files \/ p.key \in F.dirs

\* cache_time.exists()
cache_time_exists(F, p) == p.key \in DOMAIN F.times

\* to_local, the comparison of the sidecar with the blob's last_modified:
\* a match returns ("hit"), a difference unlinks both cache files.
cache_check(F, s, p) ==
    IF ~(cache_blob_exists(F, p) /\ cache_time_exists(F, p))
    THEN [fc |-> F, status |-> "ok", hit |-> FALSE]
    ELSE IF get_bucket(s, p) # "ok"
    THEN [fc |-> F, status |-> get_bucket(s, p), hit |-> FALSE]
    ELSE IF ~accessor_stat(s, p)
    THEN [fc |-> F, status |-> "FileNotFoundError", hit |-> FALSE]
    ELSE IF F.times[p.key] = Str(F.updated[p.key])
    THEN [fc |-> F, status |-> "ok", hit |-> TRUE]
    ELSE IF p.key \in F.dirs
    THEN [fc |-> F, status |-> "IsADirectoryError", hit |-> FALSE]
    ELSE [fc     |-> [F EXCEPT !.files = Restrict(@, DOMAIN @ \ {p.key}),
                               !.times = Restrict(@, DOMAIN @ \ {p.key})],
          status |-> "ok",
          hit    |-> FALSE]

\* to_local, the download of one blob into the cache.
cache_fetch(F, s, p) ==
    IF \E d \in Ancestors(p.key) : d \in DOMAIN F.files
    THEN [fc |-> F, status |-> "NotADirectoryError"]
    ELSE [fc     |-> [F EXCEPT !.dirs = @ \cup Ancestors(p.key),
                               !.files = Put(@, p.key, s.blobs[<<p.bucket, p.key>>]),
                               !.times = Put(@, p.key, Str(F.updated[p.key]))],
          status |-> "ok"]

\* Pathy.to_local(blob, recurse=False)
to_local_blob(F, s, p) ==
    LET c == cache_check(F, s, p)
    IN  IF c.status # "ok" \/ c.hit THEN [fc |-> c.fc, status |-> c.status]
        ELSE IF ~cache_blob_exists(c.fc, p) /\ is_file(s, p)
        THEN cache_fetch(c.fc, s, p)
        ELSE [fc |-> c.fc, status |-> "ok"]

\* for blob in in_path.rglob("*"): Pathy.to_local(blob, recurse=False)
RECURSIVE to_local_each(_, _, _)
to_local_each(F, s, paths) ==
    IF paths = {} THEN [fc |-> F, status |-> "ok"]
    ELSE LET p == CHOOSE x \in paths :
                      \A y \in paths : x = y \/ StrLess(x.key, y.key)
             r == to_local_blob(F, s, p)
         IN  IF r.status # "ok" THEN r
             ELSE to_local_each(r.fc, s, paths \ {p})

\* Pathy.to_local(path) with recurse=True.
to_local_path(F, s, p) ==
    IF ~F.set THEN [fc |-> F, status |-> "ValueError"]
    ELSE LET c == cache_check(F, s, p)
         IN  IF c.status # "ok" \/ c.hit THEN [fc |-> c.fc, status |-> c.status]
             ELSE IF cache_blob_exists(c.fc, p) THEN [fc |-> c.fc, status |-> "ok"]
             ELSE IF is_file(s, p) THEN cache_fetch(c.fc, s, p)
             ELSE IF glob_raises(s, p) THEN [fc |-> c.fc, status |-> "NotFound"]
             ELSE to_local_each(c.fc, s, rglob(s, p, <<"*">>))

\* use_fs_cache()
FolderUseFsCache ==
    /\ ~fc.set
    /\ fc' = [fc EXCEPT !.set = TRUE]
    /\ UNCHANGED <<storeVars, registryVars, cacheVars, parseVars, writerVars>>

\* write_text on a blob below the prefix: the blob's updated time is new.
FolderWrite(p, c) ==
    /\ fc.now < MaxTime
    /\ pathy_write(store, p, c).status = "ok"
    /\ Returned("write", pathy_write(store, p, c))
    /\ fc' = [fc EXCEPT !.now = @ + 1,
                        !.updated = Put(@, p.key, fc.now + 1)]
    /\ UNCHANGED <<registryVars, cacheVars, parseVars, writerVars, adapter, rn, renames>>

\* Pathy.to_local(prefix)
ToLocalFolder ==
    LET r == to_local_path(fc, store, Folder)
    IN  /\ fc' = r.fc
        /\ Returned("to_local", [store |-> store, status |-> r.status])
        /\ UNCHANGED <<registryVars, cacheVars, parseVars, writerVars, adapter, rn, renames>>

(***************************************************************************)
(* Specification.                                                          *)
(***************************************************************************)
Init ==
    /\ adapter \in {"fs", "gcs"}
    /\ store = EmptyStore
    /\ rn = Idle
    /\ renames = 0
    /\ last = [op |-> "none", status |-> "ok"]
    /\ reg = RegInit
    /\ got = NoCall
    /\ lc = CacheInit
    /\ pv = NoParse
    /\ ext = {}
    /\ rd = Idle
    /\ fc = FolderInit

\* rename is called on paths with a key; a behaviour begins at most
\* MaxRenames renames.
Next ==
    \/ \E p \in MkdirPaths, parents \in BOOLEAN, exist_ok \in BOOLEAN :
           Mkdir(p, parents, exist_ok)
    \/ \E p \in KeyPaths, c \in Contents : Write(p, c)
    \/ \E p \in Paths : Unlink(p)
    \/ \E p \in Paths : Rmdir(p)
    \/ \E src \in KeyPaths, dst \in KeyPaths : RenameStart(src, dst)
    \/ RenameCopy
    \/ RenameDelete
    \/ RenameBackendFails
    \/ RenameReturn

Spec == Init /\ [][Next]_vars

\* The registry alone, over an empty store.
InitRegistry ==
    /\ adapter = "fs"
    /\ store = EmptyStore
    /\ rn = Idle
    /\ renames = 0
    /\ last = [op |-> "none", status |-> "ok"]
    /\ reg = RegInit
    /\ got = NoCall
    /\ lc = CacheInit
    /\ pv = NoParse
    /\ ext = {}
    /\ rd = Idle
    /\ fc = FolderInit

NextRegistry ==
    \/ \E x \in Registrations : RegisterClient(x[1], x[2])
    \/ \E scheme \in Schemes : GetClient(scheme)
    \/ \E scheme \in Schemes, kwargs \in Kwargs : SetClientParams(scheme, kwargs)
    \/ \E root \in {"False", "data", "root"} : UseFs(root)

SpecRegistry == InitRegistry /\ [][NextRegistry]_vars

\* The local cache alone.
InitCache == InitRegistry

NextCache ==
    \/ \E root \in CacheRoots : UseFsCache(root)
    \/ UnsetFsCache
    \/ ToLocal
    \/ \E force \in BOOLEAN : ClearFsCache(force)
    \/ \E c \in Contents : BlobWritten(c)
    \/ Tick
    \/ \E sidecar \in BOOLEAN : CacheFileLost(sidecar)

SpecCache == InitCache /\ [][NextCache]_vars

\* The operations of one bucket, called with absolute and with relative
\* paths.
OneBucket == {p \in Paths : p.bucket = "p"}

NextRelative ==
    \/ \E exist_ok \in BOOLEAN :
           Mkdir([bucket |-> "p", key |-> NoKey], FALSE, exist_ok)
    \/ \E p \in (OneBucket \cap KeyPaths) \cup RelPaths, c \in Contents : Write(p, c)
    \/ \E op \in QueryOps, p \in OneBucket \cup RelPaths : Query(op, p)
    \/ \E p \in OneBucket \cup RelPaths : Rmdir(p)
    \/ \E src \in (OneBucket \cap KeyPaths) \cup RelPaths,
          dst \in (OneBucket \cap KeyPaths) \cup RelPaths : RenameStart(src, dst)
    \/ RenameCopy
    \/ RenameDelete
    \/ RenameBackendFails
    \/ RenameReturn

SpecRelative == Init /\ [][NextRelative]_vars

\* The paths rename and rmdir are called with: p/a and p/ab.
OpPaths == {p \in OneBucket : p.key \in {SegA, SegAB}}

\* rename and rmdir of one bucket in steps, with another writer.
NextConcurrent ==
    \/ \E exist_ok \in BOOLEAN :
           Mkdir([bucket |-> "p", key |-> NoKey], FALSE, exist_ok)
    \/ \E p \in OneBucket \cap KeyPaths, c \in Contents :
           rd.phase # "listed" /\ Write(p, c)
    \/ \E src \in OpPaths, dst \in OpPaths :
           rd.phase # "listed" /\ RenameStart(src, dst)
    \/ RenameCopy
    \/ RenameDelete
    \/ RenameReturn
    \/ \E p \in OpPaths : RmdirList(p)
    \/ RmdirFinish
    \/ \E p \in OneBucket \cap KeyPaths, c \in Contents : ExternalWrite(p, c)
    \/ \E p \in OneBucket \cap KeyPaths : ExternalDelete(p)

SpecConcurrent == Init /\ [][NextConcurrent]_vars

\* The command line on two buckets: sources in bucket p, destinations in
\* bucket p and in bucket q.
CliSources == OneBucket \cap KeyPaths

CliTargets == {[bucket |-> "p", key |-> SegAB], [bucket |-> "q", key |-> SegAB]}

NextCli ==
    \/ \E b \in Buckets, exist_ok \in BOOLEAN :
           Mkdir([bucket |-> b, key |-> NoKey], FALSE, exist_ok)
    \/ \E p \in CliSources, c \in Contents : Write(p, c)
    \/ \E src \in CliSources, dst \in CliTargets : Cp(src, dst)
    \/ \E src \in CliSources, dst \in CliTargets : Mv(src, dst)
    \/ \E p \in CliSources, recursive \in BOOLEAN : Rm(p, recursive)

SpecCli == Init /\ [][NextCli]_vars

\* The blobs below one prefix written, and the prefix cached.
NextFolder ==
    \/ \E exist_ok \in BOOLEAN :
           Mkdir([bucket |-> "p", key |-> NoKey], FALSE, exist_ok)
    \/ FolderUseFsCache
    \/ \E k \in FolderKeys, c \in Contents :
           FolderWrite([bucket |-> "p", key |-> k], c)
    \/ ToLocalFolder

SpecFolder == Init /\ [][NextFolder]_vars

\* Blobs of one bucket written and touched.
NextTouch ==
    \/ \E exist_ok \in BOOLEAN :
           Mkdir([bucket |-> "p", key |-> NoKey], FALSE, exist_ok)
    \/ \E p \in OneBucket \cap KeyPaths, c \in Contents : Write(p, c)
    \/ \E p \in OneBucket \cap KeyPaths, exist_ok \in BOOLEAN : Touch(p, exist_ok)

SpecTouch == Init /\ [][NextTouch]_vars

\* Path strings alone: every string of PathStrings is parsed, formatted
\* and parsed again.
InitParse ==
    /\ adapter = "fs"
    /\ store = EmptyStore
    /\ rn = Idle
    /\ renames = 0
    /\ last = [op |-> "none", status |-> "ok"]
    /\ reg = RegInit
    /\ got = NoCall
    /\ lc = CacheInit
    /\ pv \in {[NoParse EXCEPT !.phase = "new", !.text = t] : t \in PathStrings}
    /\ ext = {}
    /\ rd = Idle
    /\ fc = FolderInit

NextParse == Parse \/ Format \/ Reparse

SpecParse == InitParse /\ [][NextParse]_vars

TypeOK ==
    /\ adapter \in {"fs", "gcs"}
    /\ store.buckets \subseteq Buckets
    /\ rn.phase \in {"idle", "copy", "delete", "done"}
    /\ adapter = "gcs" => store.dirs = {}
    /\ \A x \in BlobKeys(store) : x[1] \in store.buckets
    /\ pv.phase \in {"none", "new", "parsed", "formatted", "reparsed"}

(***************************************************************************)
(* What the claims speak of.                                               *)
(***************************************************************************)
\* Content of the blob <<b, k>> in store s, "" when there is none.
ContentAt(s, b, k) == IF <<b, k>> \in BlobKeys(s) THEN s.blobs[<<b, k>>] ELSE ""

\* Some blob of the path's bucket has a key that starts with key + sep.
HasBlobsBelow(s, p) == \E n \in BlobNames(s, p.bucket) : Under(n, p.key)

HasExactBlob(s, p) == p.key # NoKey /\ <<p.bucket, p.key>> \in BlobKeys(s)

\* The key below dst that the key k below src is renamed to: the leading
\* source key replaced, the rest kept.
DestKey(src, dst, k) == dst.key \o SubSeq(k, Len(src.key) + 1, Len(k))

\* The blobs a rename has to move, as they were when it was called: the
\* blob at src, or else every blob below the prefix src.
SourceKeys(r) ==
    IF HasExactBlob(r.pre, r.src) THEN {r.src.key}
    ELSE {k \in BlobNames(r.pre, r.src.bucket) : Under(k, r.src.key)}

\* src is a blob or a prefix (not both), and dst is neither src nor below it.
RenameCase(r) ==
    /\ HasExactBlob(r.pre, r.src) # HasBlobsBelow(r.pre, r.src)
    /\ r.dst.bucket = r.src.bucket =>
           r.dst.key # r.src.key /\ ~Under(r.dst.key, r.src.key)

Moved(r, s, k) ==
    ContentAt(s, r.dst.bucket, DestKey(r.src, r.dst, k))
        = r.pre.blobs[<<r.src.bucket, k>>]

Kept(r, s, k) ==
    ContentAt(s, r.src.bucket, k) = r.pre.blobs[<<r.src.bucket, k>>]

\* C1: when rename(src, dst) returns successfully, exists(src) is false,
\* exists(dst) is true and every blob that was at or below src is stored at
\* its key at or below dst with the content it had.
C1_RenameMoves ==
    (rn.phase = "done" /\ rn.status = "ok" /\ RenameCase(rn)) =>
        /\ ~exists(store, rn.src)
        /\ exists(store, rn.dst)
        /\ \A k \in SourceKeys(rn) : Moved(rn, store, k)

\* C2: rename deletes no source blob before every copy has succeeded, and
\* at every step of a rename each source blob's prior content is still
\* stored under its source key or under its destination key.
C2_RenameNeverLoses ==
    (rn.phase # "idle" /\ RenameCase(rn)) =>
        /\ rn.phase = "copy" => \A k \in SourceKeys(rn) : Kept(rn, store, k)
        /\ \A k \in SourceKeys(rn) : Kept(rn, store, k) \/ Moved(rn, store, k)

\* The copy loop of a prefix rename has just finished without an error.
CopiesDone(r) ==
    /\ r.phase \in {"delete", "done"}
    /\ r.phase = "delete" => r.i = 1
    /\ r.phase = "done" => r.status = "ok" /\ r.blobs = <<>>
    /\ ~r.single

\* C3: a prefix rename lists every blob below the source prefix, at any
\* depth, and copies each to the key that replaces only the leading source
\* prefix by the destination prefix.
C3_PrefixRenameCopiesAll ==
    (rn.phase # "idle" /\ CopiesDone(rn) /\ RenameCase(rn)) =>
        /\ {rn.blobs[i].raw : i \in 1..Len(rn.blobs)} = SourceKeys(rn)
        /\ \A k \in SourceKeys(rn) : Moved(rn, store, k)

\* C4: rmdir(p), p a key in an existing bucket and the backend serving
\* every call, raises NotADirectoryError
\* when p is an exact-key blob and FileNotFoundError when p is neither a
\* blob nor an implied directory, the store unchanged in both cases;
\* otherwise it deletes every blob below p, and exists(p) is false after.
C4_Rmdir ==
    [][\A p \in KeyPaths :
         (last'.op = "rmdir" /\ last'.status # "BackendError"
              /\ p.bucket \in store.buckets /\ Rmdir(p)) =>
            IF HasExactBlob(store, p)
            THEN last'.status = "NotADirectoryError" /\ store' = store
            ELSE IF ~HasBlobsBelow(store, p)
            THEN last'.status = "FileNotFoundError" /\ store' = store
            ELSE /\ last'.status = "ok"
                 /\ ~HasBlobsBelow(store', p)
                 /\ ~exists(store', p)]_vars

\* C5: a path with a key exists iff a blob has exactly its key or some
\* blob's key starts with key + separator.
C5_ExistsIffBlob ==
    \A p \in KeyPaths :
        exists(store, p) <=> (HasExactBlob(store, p) \/ HasBlobsBelow(store, p))

C7_DirIffBlobBelow ==
    rn.phase = "idle" =>
        \A p \in KeyPaths :
            ~HasExactBlob(store, p) =>
                (is_dir(store, p) <=> HasBlobsBelow(store, p))

\* C8: mkdir of a bucket root raises FileExistsError when the bucket exists
\* and exist_ok is false, succeeds and changes nothing when it exists and
\* exist_ok is true, and creates the bucket when it does not exist.
C8_MkdirBucket ==
    [][\A p \in RootPaths, parents \in BOOLEAN, exist_ok \in BOOLEAN :
         (last'.op = "mkdir" /\ Mkdir(p, parents, exist_ok)) =>
            IF p.bucket \in store.buckets
            THEN /\ store' = store
                 /\ last'.status = IF exist_ok THEN "ok" ELSE "FileExistsError"
            ELSE /\ last'.status = "ok"
                 /\ exists(store', p)
                 /\ store'.buckets = store.buckets \cup {p.bucket}]_vars

\* mkdir(exist_ok=False) of an existing bucket has raised FileExistsError.
C8_Witness ==
    /\ last = [op |-> "mkdir", status |-> "FileExistsError"]
    /\ store.buckets # {}

\* C9: mkdir of a path with a key is rejected and creates no bucket unless
\* parents is set; with parents set the bucket is created.
C9_MkdirKey ==
    [][\A p \in MkdirPaths \ RootPaths, parents \in BOOLEAN, exist_ok \in BOOLEAN :
         (last'.op = "mkdir" /\ Mkdir(p, parents, exist_ok)) =>
            IF parents THEN p.bucket \in store'.buckets
            ELSE last'.status # "ok" /\ store' = store]_vars

\* A scheme that has no client type and no module to load one from.
Unregistered(r, scheme) ==
    r.registry[scheme] = "none" /\ scheme \notin optional_clients

\* C10: while the file-system override is set, get_client returns that one
\* client for every scheme and changes nothing; a lookup of an unregistered
\* scheme raises ValueError iff the override is not set.
C10_OverrideWins ==
    [][\A scheme \in Schemes :
         GetClient(scheme) =>
            /\ reg.fs # 0 =>
                   got'.status = "ok" /\ got'.client = reg.fs /\ reg' = reg
            /\ Unregistered(reg, scheme) =>
                   (got'.status = "ValueError" <=> reg.fs = 0)]_vars

\* With the override set, a lookup of a scheme whose own client was already
\* constructed has returned the file-system client.
C10_Witness ==
    /\ got.op = "get_client"
    /\ reg.fs # 0
    /\ got.client = reg.fs
    /\ reg.cache[got.scheme] # 0
    /\ reg.cache[got.scheme] # reg.fs

\* C11: with no override, get_client constructs a scheme's client on the
\* first lookup and returns that same client on every later one; and
\* set_client_params on a constructed client keeps that client in the cache
\* and leaves it with the new parameters.
C11_LazySingleton ==
    [][/\ \A scheme \in Schemes :
            (GetClient(scheme) /\ reg.fs = 0 /\ got'.status = "ok") =>
                IF reg.cache[scheme] # 0
                THEN got'.client = reg.cache[scheme] /\ reg' = reg
                ELSE /\ got'.client = Len(reg.objs) + 1
                     /\ reg'.cache[scheme] = got'.client
       /\ \A scheme \in Schemes, kwargs \in Kwargs :
            (SetClientParams(scheme, kwargs) /\ reg.cache[scheme] # 0
                 /\ got'.status = "ok") =>
                /\ reg'.cache = reg.cache
                /\ Len(reg'.objs) = Len(reg.objs)
                /\ reg'.objs[reg.cache[scheme]].params = kwargs]_vars

\* The directory the cache files of the blob are in.
CacheDir(L) == resolve(L.root)

HasData(L) == L.data[CacheDir(L)] # NoData

HasSidecar(L) == L.time[CacheDir(L)] # NoText

\* The validity rule: both files are there and the sidecar's text is the
\* blob's current last-modified value.
Fresh(L) ==
    HasData(L) /\ HasSidecar(L) /\ L.time[CacheDir(L)] = Str(L.remote.updated)

\* The cache record of L2 is the blob as it is in L.
Refetched(L, L2) ==
    /\ L2.ret.status = "ok"
    /\ L2.ret.fetched
    /\ L2.data[CacheDir(L)] = L.remote.content
    /\ L2.time[CacheDir(L)] = Str(L.remote.updated)

\* C12: to_local of a blob reuses the cache, fetching nothing and changing
\* no cache file, exactly when the record is fresh; otherwise the blob is
\* fetched again and the data file and the sidecar match the blob after.
C12_CacheValidity ==
    [][(ToLocal /\ lc.set /\ lc.remote.content # NoData) =>
          IF Fresh(lc)
          THEN /\ lc'.ret.status = "ok"
               /\ ~lc'.ret.fetched
               /\ lc'.data = lc.data /\ lc'.time = lc.time
          ELSE Refetched(lc, lc')]_vars

\* C13: a record with the data file but no sidecar, or the sidecar but no
\* data file, is a miss: to_local fetches the blob again, rewrites the
\* record and raises nothing.
C13_CorruptIsMiss ==
    [][(ToLocal /\ lc.set /\ lc.remote.content # NoData
             /\ HasData(lc) # HasSidecar(lc)) =>
          Refetched(lc, lc')]_vars

\* C14: clear_fs_cache raises and deletes nothing when no cache root is
\* configured or the root resolves to "/", whatever force is; otherwise it
\* deletes the whole cache root and nothing else.
C14_ClearRefusesRoot ==
    [][\A force \in BOOLEAN :
         ClearFsCache(force) =>
            IF ~lc.set \/ resolve(lc.root) = RootDir
            THEN /\ lc'.ret.status # "ok"
                 /\ lc'.made = lc.made /\ lc'.data = lc.data
                 /\ lc'.time = lc.time /\ lc'.host = lc.host
            ELSE CacheDir(lc) \in lc.made =>
                     /\ lc'.ret.status = "ok"
                     /\ CacheDir(lc) \notin lc'.made
                     /\ lc'.data[CacheDir(lc)] = NoData
                     /\ lc'.time[CacheDir(lc)] = NoText
                     /\ lc'.host = lc.host]_vars

\* clear_fs_cache has refused a root that is written /c/.. and is "/",
\* with the blob cached below it.
C14_Witness ==
    /\ lc.ret = [op |-> "clear_fs_cache", status |-> "AssertionError",
                 fetched |-> FALSE]
    /\ lc.set /\ lc.root # RootDir /\ resolve(lc.root) = RootDir
    /\ HasData(lc) /\ lc.host

\* C15: a prefix rename or rmdir stops at the first backend call that
\* fails and returns that error: the failed call and the rest of the
\* operation change no blob, and what was copied or deleted before stays;
\* an rmdir that failed has deleted the blobs listed before the one that
\* failed and no other.
C15_FirstErrorAborts ==
    [][/\ (rn.phase \in {"copy", "delete"} /\ rn'.phase # "idle"
               /\ rn'.status # "ok") =>
              rn'.phase = "done" /\ store'.blobs = store.blobs
       /\ (rn.phase = "done" /\ rn.status # "ok") =>
              store' = store /\ rn' = Idle /\ last'.status = rn.status
       /\ last' = [op |-> "rmdir", status |-> "BackendError"] =>
              LET gone == BlobKeys(store) \ BlobKeys(store')
              IN  /\ BlobKeys(store') \subseteq BlobKeys(store)
                  /\ \A x \in BlobKeys(store') : store'.blobs[x] = store.blobs[x]
                  /\ \E p \in Paths :
                       /\ \A x \in gone : x[1] = p.bucket
                       /\ \E blobs \in list_blobs(store, p.bucket, p.key, FALSE) :
                             /\ Cardinality(gone) < Len(blobs)
                             /\ gone = {<<p.bucket, blobs[i].raw>> :
                                            i \in 1..Cardinality(gone)}]_vars

\* A rename has stopped at the failure of its second copy or delete, and
\* the copies made before are in the store.
C15_Witness ==
    /\ rn.phase = "done"
    /\ rn.status = "BackendError"
    /\ rn.i = 2
    /\ Cardinality(BlobKeys(store)) > Cardinality(BlobKeys(rn.pre))

\* The exception types of the storage service's SDK
\* (google.api_core.exceptions) among the statuses an operation returns.
GcsErrors == {"NotFound", "Conflict"}

\* C16: no caller sees an exception type of the backend: whatever an
\* operation on the GCS client raises is one of the library's own errors.
C16_NoBackendError == adapter = "gcs" => last.status \notin GcsErrors

\* Names of the sub-directories of p that the blobs imply, and of the blobs
\* stored directly under p.
ImpliedDirs(s, p) ==
    {Basename(StripSep(d)) : d \in gcs_prefixes(s, p.bucket, Prefix(p.key))}

DirectBlobs(s, p) ==
    {Basename(k) : k \in {n \in BlobNames(s, p.bucket) : Dirname(n) = p.key}}

ExpectedEntries(s, p) ==
    {DirEntry(n) : n \in ImpliedDirs(s, p)} \cup
    {FileEntry(n) : n \in DirectBlobs(s, p)}

\* C17: glob with a single-segment pattern returns exactly the direct
\* children of the prefix whose name matches (the blobs directly under it
\* and the sub-directories the blobs imply) and nothing deeper; rglob with
\* the same pattern returns, of the blobs, those below the prefix at any
\* depth whose name matches, and all that glob returns.
C17_GlobOneLevelRglobAll ==
    \A p \in Paths : \A pat \in Patterns :
        ~glob_raises(store, p) =>
            /\ glob(store, p, pat) =
                   {Child(p, e.name) :
                        e \in {x \in ExpectedEntries(store, p) : fnmatch(x.name, pat)}}
            /\ \A k \in BlobNames(store, p.bucket) :
                   [bucket |-> p.bucket, key |-> k] \in rglob(store, p, pat)
                       <=> (Under(k, p.key) /\ fnmatch(Basename(k), pat))
            /\ glob(store, p, pat) \subseteq rglob(store, p, pat)

C19_DotDotLexical ==
    (pv.phase = "parsed" /\ pv.r.status = "ok") =>
        pv.r.parts = dotdot_stack(<<>>, posix_parse_parts(pv.text).parsed)

\* The Path Value of a parse: scheme, bucket, key segments, and whether the
\* path is absolute.
PathValue(r) ==
    [scheme   |-> IF r.drv = <<>> THEN <<>> ELSE SubSeq(r.drv, 1, Len(r.drv) - 1),
     bucket   |-> r.root,
     key      |-> IF r.root # <<>> THEN SubSeq(r.parts, 3, Len(r.parts)) ELSE r.parts,
     absolute |-> r.root # <<>>]

\* C20: a path string that parses, formatted and parsed again, gives the
\* same Path Value: the same scheme, bucket and key segments.
C20_RoundTrip ==
    (pv.phase = "reparsed") =>
        /\ pv.r2.status = "ok"
        /\ PathValue(pv.r2) = PathValue(pv.r)

\* C26: rmdir of a path with a key deletes only blobs whose key starts with
\* that key and the separator; every other blob of the store, one whose
\* key only begins with the same characters included, keeps its content.
C26_RmdirFrame ==
    [][\A p \in KeyPaths :
           (last'.op = "rmdir" /\ Rmdir(p)) =>
               \A x \in BlobKeys(store) :
                   ~(x[1] = p.bucket /\ StartsWith(x[2], Prefix(p.key))) =>
                       /\ x \in BlobKeys(store')
                       /\ store'.blobs[x] = store.blobs[x]]_vars

\* C27: a delete of blobs never removes their bucket: after an unlink that
\* succeeded the bucket of the path exists and every other blob is as it
\* was, and the delete phase of a rename removes no bucket.
C27_DeleteKeepsBucket ==
    [][/\ \A p \in KeyPaths :
              (last' = [op |-> "unlink", status |-> "ok"] /\ Unlink(p)) =>
                  /\ p.bucket \in store'.buckets
                  /\ \A x \in BlobKeys(store) \ {<<p.bucket, p.key>>} :
                         /\ x \in BlobKeys(store')
                         /\ store'.blobs[x] = store.blobs[x]
       /\ rn.phase = "delete" => store.buckets \subseteq store'.buckets]_vars

\* C29: whatever is_dir or is_file reports as present, exists reports as
\* present, for every absolute path, bucket roots included.
C29_DirOrFileExists ==
    \A p \in Paths :
        (~is_dir_raises(store, p) /\ (is_dir(store, p) \/ is_file(store, p)))
            => exists(store, p)

\* C21: bucket, key, exists, is_dir, is_file, stat, open (write), rename
\* and rmdir on a relative path raise ValueError before any backend call:
\* the store is as it was and no rename is under way.
C21_RelativeRefused ==
    [][/\ \A p \in RelPaths :
              /\ \A op \in QueryOps :
                     (last'.op = op /\ Query(op, p)) =>
                         last'.status = "ValueError" /\ store' = store
              /\ \A c \in Contents :
                     (last'.op = "write" /\ Write(p, c)) =>
                         last'.status = "ValueError" /\ store' = store
              /\ (last'.op = "rmdir" /\ Rmdir(p)) =>
                     last'.status = "ValueError" /\ store' = store
       /\ \A src \in RelPaths \cup (OneBucket \cap KeyPaths) :
              \A dst \in RelPaths \cup (OneBucket \cap KeyPaths) :
                  ((src \in RelPaths \/ dst \in RelPaths)
                   /\ last'.op = "rename" /\ RenameStart(src, dst)) =>
                      /\ last'.status = "ValueError"
                      /\ store' = store
                      /\ rn' = Idle]_vars

\* A relative path was refused while the store holds a blob.
C21_Witness ==
    /\ last.status = "ValueError"
    /\ last.op \in {"rmdir", "rename", "write", "exists"}
    /\ BlobKeys(store) # {}

\* The path strings scheme://bucket/../x and scheme://bucket/../x/y, with
\* names for bucket, x and y.
DotDotAfterBucket ==
    LET names == SegNames \ {Dot, DotDot, <<>>}
    IN  {<<"g", ":", "/", "/">> \o flavour_join(<<b, DotDot>> \o l) :
            b \in names, l \in UNION {[1..n -> names] : n \in 1..2}}

\* C30: parsing scheme://bucket/../x keeps the scheme and the bucket, the
\* first two parts are the scheme and the bucket, and there is a key left:
\* the path is not the bucket root.
C30_DotDotKeepsBucket ==
    (pv.phase = "parsed" /\ pv.text \in DotDotAfterBucket) =>
        /\ pv.r.status = "ok"
        /\ pv.r.drv = <<"g", ":">>
        /\ pv.r.root = split(lstrip(SubSeq(pv.text, 3, Len(pv.text))))[1]
        /\ Len(pv.r.parts) > 2
        /\ pv.r.parts[1] = pv.r.drv
        /\ pv.r.parts[2] = pv.r.root

\* C24: touch where nothing exists, when it succeeds, leaves an empty blob
\* there and the other blobs as they were; touch(exist_ok=False) on an
\* existing path raises FileExistsError and changes nothing; touch with
\* exist_ok true on an existing blob succeeds and every blob, the touched
\* one included, keeps its content.
C24_Touch ==
    [][\A p \in OneBucket \cap KeyPaths : \A exist_ok \in BOOLEAN :
           (last'.op = "touch" /\ Touch(p, exist_ok)) =>
               /\ (~exists(store, p) /\ last'.status = "ok") =>
                      /\ <<p.bucket, p.key>> \in BlobKeys(store')
                      /\ store'.blobs[<<p.bucket, p.key>>] = EmptyText
                      /\ \A x \in BlobKeys(store) :
                             /\ x \in BlobKeys(store')
                             /\ store'.blobs[x] = store.blobs[x]
               /\ (exists(store, p) /\ ~exist_ok) =>
                      /\ last'.status = "FileExistsError"
                      /\ store' = store
               /\ (is_file(store, p) /\ exist_ok) =>
                      /\ last'.status = "ok"
                      /\ store'.blobs = store.blobs]_vars

\* The key a listed blob is stored under.
StoredKey(blob) == IF adapter = "fs" THEN blob.raw ELSE blob.name

\* C25: prefix rename and prefix rmdir work from the listing they took and
\* nothing tells them of another writer: a write or delete from outside
\* leaves the position, the listing and the status of the operation as they
\* were; no step of a rename changes its listing; the delete of a listed
\* blob that is still stored removes it whatever it holds by then and
\* keeps the status ok; rename returns the status of its steps; and on GCS
\* an rmdir that returns ok leaves every blob it did not list.
C25_NoLockNoDetection ==
    [][/\ ext' # ext /\ ext' # {} =>
              /\ rn' = rn
              /\ rd' = rd
              /\ last' = last
       /\ (rn.phase \in {"copy", "delete"} /\ rn'.phase # "idle") =>
              /\ rn'.blobs = rn.blobs
              /\ rn'.pre = rn.pre
       /\ (rn.phase = "delete" /\ rn' # rn) =>
              LET x == <<rn.src.bucket, StoredKey(rn.blobs[rn.i])>>
              IN  x \in BlobKeys(store) =>
                      /\ x \notin BlobKeys(store')
                      /\ rn'.status = "ok"
       /\ (rn.phase = "done" /\ rn'.phase = "idle") => last'.status = rn.status
       /\ (rd.phase = "listed" /\ rd'.phase = "done"
           /\ last'.status = "ok" /\ adapter = "gcs") =>
              \A x \in BlobKeys(store) :
                  (\A i \in 1..Len(rd.blobs) : x[2] # StoredKey(rd.blobs[i]))
                      => x \in BlobKeys(store')]_vars

\* A prefix rename has made its last backend call with status ok; a blob it
\* listed was rewritten by the other writer after its copy was taken: the
\* blob is gone from the source and the destination holds the content of
\* before, not the content written.
C25_Witness ==
    /\ rn.phase = "done"
    /\ rn.status = "ok"
    /\ ~rn.single
    /\ \E e \in ext : \E i \in 1..Len(rn.blobs) :
           LET src == <<rn.src.bucket, StoredKey(rn.blobs[i])>>
               dst == <<rn.dst.bucket, target_key_name(rn, rn.blobs[i])>>
           IN  /\ e.content # Deleted
               /\ <<e.bucket, e.key>> = src
               /\ src \notin BlobKeys(store)
               /\ dst \in BlobKeys(store)
               /\ store.blobs[dst] = rn.pre.blobs[src]
               /\ store.blobs[dst] # e.content

\* C28: a to_local(prefix) that returns ok after the prefix was cached by
\* an earlier call leaves, for every blob below the prefix, a cached copy
\* with the blob's content and a sidecar with the blob's updated time.
C28_FolderRevalidated ==
    [][(/\ last'.op = "to_local"
        /\ last'.status = "ok"
        /\ Folder.key \in fc.dirs
        /\ ToLocalFolder) =>
           \A k \in BlobNames(store, Folder.bucket) :
               Under(k, Folder.key) =>
                   /\ k \in DOMAIN fc'.files
                   /\ fc'.files[k] = store.blobs[<<Folder.bucket, k>>]
                   /\ k \in DOMAIN fc'.times
                   /\ fc'.times[k] = Str(fc.updated[k])]_vars

\* C22: rm of a directory without -r exits 1 and removes nothing; cp, mv
\* and rm of a source that does not exist exit 1 and leave the store as it
\* was.
C22_ExitCodes ==
    [][/\ \A p \in CliSources :
              (last'.op = "rm" /\ is_dir(store, p) /\ exists(store, p)
               /\ ~is_dir_raises(store, p) /\ Rm(p, FALSE)) =>
                  last'.status = "1" /\ store' = store
       /\ \A p \in CliSources : \A recursive \in BOOLEAN :
              (last'.op = "rm" /\ ~exists(store, p) /\ Rm(p, recursive)) =>
                  last'.status = "1" /\ store' = store
       /\ \A src \in CliSources : \A dst \in CliTargets :
              /\ (last'.op = "cp" /\ ~exists(store, src) /\ Cp(src, dst)) =>
                     last'.status = "1" /\ store' = store
              /\ (last'.op = "mv" /\ ~exists(store, src) /\ Mv(src, dst)) =>
                     last'.status = "1" /\ store' = store]_vars

\* The keys of the blobs at or under path p.
BlobsAt(s, p) ==
    {k \in BlobNames(s, p.bucket) : k = p.key \/ Under(k, p.key)}

\* The key below dst that corresponds to key k at or under src.
CorrespondingKey(src, dst, k) ==
    IF k = src.key THEN dst.key ELSE Join(dst.key, relative_to(k, src.key))

\* Every blob that store s holds at or under src is in store t at the
\* corresponding key at or under dst, with the content it has in s.
MovedTo(s, t, src, dst) ==
    \A k \in BlobsAt(s, src) :
        LET x == <<dst.bucket, CorrespondingKey(src, dst, k)>>
        IN  x \in BlobKeys(t) /\ t.blobs[x] = s.blobs[<<src.bucket, k>>]

\* C23: after mv src dst exits 0 nothing is left at or under src and every
\* blob that was there is at the corresponding key at or under dst with its
\* content; after cp src dst exits 0 the same blobs are at dst and the
\* blobs at or under src are as they were.
C23_MvCp ==
    [][\A src \in CliSources : \A dst \in CliTargets :
           /\ (last' = [op |-> "mv", status |-> "0"] /\ Mv(src, dst)) =>
                  /\ BlobsAt(store', src) = {}
                  /\ MovedTo(store, store', src, dst)
           /\ (last' = [op |-> "cp", status |-> "0"] /\ Cp(src, dst)) =>
                  /\ MovedTo(store, store', src, dst)
                  /\ \A k \in BlobsAt(store, src) :
                         /\ <<src.bucket, k>> \in BlobKeys(store')
                         /\ store'.blobs[<<src.bucket, k>>]
                                = store.blobs[<<src.bucket, k>>]]_vars

====
